---- MODULE Spec2Model ----
(***************************************************************************)
(* Verification model of poly-event-sniper: the price-threshold parser     *)
(* (src/parsers/threshold.py) and the orchestrator pipeline                *)
(* (src/orchestrator.py) with the portfolio, store and journal writes it   *)
(* drives.                                                                 *)
(*                                                                         *)
(* Units.  Event price fields (best_bid, best_ask, last_price) and rule    *)
(* thresholds are in cents.  The price the parser extracts is kept in      *)
(* half-cents, so that the mid-price (bid + ask) / 2 is exact; a threshold *)
(* thr is compared as 2 * thr.  Time is in seconds.                        *)
(***************************************************************************)
EXTENDS Integers, Sequences, FiniteSets, TLC

(***************************************************************************)
(* Bounds and input sets                                                   *)
(***************************************************************************)
\* number of clock steps the model lets time() advance
MaxTicks == 2
\* number of rules installed in one parser
MaxRules == 2

\* number of events one ingester's stream yields
StreamLen == 2
\* number of parsers (or strategies) registered in the orchestrator
NumHandlers == 2
\* number of orders one generate_signals() call returns
MaxOrders == 1
MaxSignals == 2
MaxFaults == 1
MaxYield == 2
MaxSendFaults == 1
MaxRuns == 2
MaxStrategies == 2
MaxFills == 2
\* number of inject_event calls, and of connect calls, on the manual ingester
MaxInjects == 2
MaxConnects == 2
MaxExecs == 2
MaxDays == 2

\* ThresholdRule.cooldown_seconds default
DefaultCooldown == 60
\* Python's None for an optional numeric field
None == -1
\* MarketEvent.token_id = None
NoToken == "none"

Step == DefaultCooldown \div 2
\* time() when the parser is constructed: far from 0, so that a rule that
\* never fired (last trigger 0.0) is out of cooldown
Epoch == DefaultCooldown
MaxTime == Epoch + MaxTicks * Step

Tokens == {"T1", "T2"}
MarketTypes == {"PRICE_CHANGE", "BOOK_UPDATE", "LAST_TRADE", "TICK_SIZE_CHANGE"}
ExternalTypes == {"NEWS", "SOCIAL"}

Rule(tok, side, thr, cmp, cd) ==
    [token_id |-> tok, trigger_side |-> side, threshold |-> thr,
     comparison |-> cmp, cooldown_seconds |-> cd]

\* rules that are installed in the runs explored
RulePool ==
    { Rule("T1", "BUY", 30, "below", DefaultCooldown),
      Rule("T1", "SELL", 30, "below", 0),
      Rule("T1", "BUY", 33, "below", 0),
      Rule("T2", "SELL", 30, "above", DefaultCooldown) }

Event(type, tok, bid, ask, last) ==
    [event_type |-> type, token_id |-> tok, best_bid |-> bid,
     best_ask |-> ask, last_price |-> last]

\* events delivered to the parser: every shape of the optional price fields
EventPool ==
    { Event("PRICE_CHANGE", tok, bid, ask, last) :
        tok \in Tokens, bid \in {None, 25, 35}, ask \in {None, 35},
        last \in {None, 33} }
    \cup { Event("NEWS", "T1", None, None, 33),
           Event("PRICE_CHANGE", NoToken, 25, 25, None) }

VARIABLES
    rules,          \* PriceThresholdParser._rules (install order)
    last_trigger,   \* PriceThresholdParser._last_trigger: (token, threshold) -> time
    last_price,     \* PriceThresholdParser._last_price: token -> half-cents
    now,            \* the value time() returns
    g_obs,          \* history: last price delivered for a token that has rules
    g_sig,          \* history: time of the last signal per (token, threshold)
    lastEval,       \* history: what the last evaluate() call saw and returned
    s2              \* history: progress through the scenario 0.35, 0.25, 0.33, 0.25

parserVars == <<rules, last_trigger, last_price, now, g_obs, g_sig, lastEval, s2>>

VARIABLES
    cfg,            \* Orchestrator constructor arguments
    faults,         \* number of failures injected so far
    is_running,     \* Orchestrator._is_running
    queue,          \* Orchestrator._event_queue
    task,           \* Orchestrator._ingester_tasks: state of each _forward_stream task
    emitted,        \* number of events each ingester's stream has yielded
    connected,      \* ingester connection state
    pc,             \* position of the start() coroutine
    ext_pc,         \* position of a stop() call made by another task
    cur,            \* the event _process_event is working on
    pi,             \* index of the parser / strategy of the current event
    in_drain,       \* start() is in the residual drain loop
    orders,         \* orders of the current strategy still to execute
    fill,           \* the ExecutionResult of the order being applied
    metrics,        \* the four counters
    positions,      \* PortfolioManager._positions: token -> quantity
    cash,           \* PortfolioManager._cash_balance
    db_positions,   \* positions table: set of rows [token_id, quantity]
    db_trades,      \* number of rows of the trades table
    journal,        \* number of lines of the trade journal
    processed,      \* history: events handed to _process_event, in order
    put,            \* history: events put on the queue, in order
    shutdown_requested, \* history: stop() was called from outside, or start() cancelled
    cancelled,      \* history: start() was cancelled
    evalLog,        \* history: parser evaluations of the current event
    execOpen,       \* history: parser whose signal is in executor.execute
    writes,         \* history: state writes made for the current order
    notified,       \* history: number of on_error notifications emitted
    checked         \* history: what check_order said of the last order: "no" (not asked), "passed", "rejected"

orchVars ==
    <<faults, cfg, is_running, queue, task, emitted, connected, pc, ext_pc, cur, pi,
      in_drain, orders, fill, metrics, positions, cash, db_positions, db_trades,
      journal, processed, put, shutdown_requested, cancelled, evalLog, execOpen,
      writes, notified, checked>>

VARIABLES
    ing,            \* PolymarketIngester: its fields, the position of stream(), histories
    mgr             \* SubscriptionManager: its fields, the position of execute_strategies(), histories

VARIABLES
    pm,             \* PortfolioManager with its positions table, and histories
    ex,             \* PolymarketExecutor: settings, and the record of its last execute() call
    pl,             \* one event sequence run through two orchestrators side by side
    kw,             \* KeywordParser: its rules and trigger times, and the record of its last evaluate()
    inj,            \* ManualEventIngester with the task that reads its stream
    lc              \* an orchestrator's start() and stop() calls, await by await

compVars == <<pm, ex, pl, kw, inj, lc>>

vars == <<parserVars, orchVars, ing, mgr, compVars>>

(***************************************************************************)
(* PriceThresholdParser                                                    *)
(***************************************************************************)
\* dict.get(key, default)
DictGet(d, key, default) == IF key \in DOMAIN d THEN d[key] ELSE default

\* d[key] = value
DictSet(d, key, value) ==
    [k \in (DOMAIN d) \cup {key} |-> IF k = key THEN value ELSE d[k]]

EmptyDict == [k \in {} |-> None]

IsMarketEvent(e) == e.token_id # NoToken /\ e.event_type \in MarketTypes

\* the extracted price, in half-cents
GetPrice(e) ==
    IF e.best_bid # None /\ e.best_ask # None THEN e.best_bid + e.best_ask
    ELSE IF e.last_price # None THEN 2 * e.last_price
    ELSE IF e.best_ask # None THEN 2 * e.best_ask
    ELSE IF e.best_bid # None THEN 2 * e.best_bid
    ELSE None

RuleKey(rule) == <<rule.token_id, rule.threshold>>

\* _rules_by_token[tok], as the indices into rules, in install order
RulesByToken(rs, tok) ==
    SelectSeq([i \in 1..Len(rs) |-> i], LAMBDA i : rs[i].token_id = tok)

\* variant: the elapsed time is taken in milliseconds, the cooldown in seconds
InCooldown_Millis(rule, t, lt) ==
    (t - DictGet(lt, RuleKey(rule), 0)) * 1000 < rule.cooldown_seconds

\* the cooldown test of _evaluate_rule, read at time t
InCooldown(rule, t, lt) ==
    t - DictGet(lt, RuleKey(rule), 0) < rule.cooldown_seconds

\* variant: a previous price equal to the threshold does not count
Crossed_StrictPrev(rule, current, prev) ==
    IF rule.comparison = "above"
    THEN IF prev # None
         THEN prev < 2 * rule.threshold /\ 2 * rule.threshold < current
         ELSE current > 2 * rule.threshold
    ELSE IF prev # None
         THEN prev > 2 * rule.threshold /\ 2 * rule.threshold > current
         ELSE current < 2 * rule.threshold

\* variant: the previous price is tested on the side the current price is on
Crossed_SameSide(rule, current, prev) ==
    IF rule.comparison = "above"
    THEN IF prev # None
         THEN prev >= 2 * rule.threshold /\ 2 * rule.threshold < current
         ELSE current > 2 * rule.threshold
    ELSE IF prev # None
         THEN prev <= 2 * rule.threshold /\ 2 * rule.threshold > current
         ELSE current < 2 * rule.threshold

\* the crossing test of _evaluate_rule
Crossed(rule, current, prev) ==
    IF rule.comparison = "above"
    THEN IF prev # None
         THEN prev <= 2 * rule.threshold /\ 2 * rule.threshold < current
         ELSE current > 2 * rule.threshold
    ELSE IF prev # None
         THEN prev >= 2 * rule.threshold /\ 2 * rule.threshold > current
         ELSE current < 2 * rule.threshold

\* _evaluate_rule returns a signal
EvaluateRule(rule, current, prev, t, lt) ==
    ~InCooldown(rule, t, lt) /\ Crossed(rule, current, prev)

\* variant: the loop does not return early, the last signal wins
RECURSIVE FirstFiring_Last(_, _, _, _, _, _)
FirstFiring_Last(idxs, rs, current, prev, t, lt) ==
    IF idxs = <<>> THEN 0
    ELSE LET rest == FirstFiring_Last(Tail(idxs), rs, current, prev, t, lt)
         IN IF rest # 0 THEN rest
            ELSE IF EvaluateRule(rs[Head(idxs)], current, prev, t, lt)
                 THEN Head(idxs)
                 ELSE 0

\* the loop of evaluate(): the first rule of idxs that returns a signal, or 0
RECURSIVE FirstFiring(_, _, _, _, _, _)
FirstFiring(idxs, rs, current, prev, t, lt) ==
    IF idxs = <<>> THEN 0
    ELSE IF EvaluateRule(rs[Head(idxs)], current, prev, t, lt) THEN Head(idxs)
    ELSE FirstFiring(Tail(idxs), rs, current, prev, t, lt)

\* variant: the update follows the rule loop and is skipped by its early return
LastPriceAfter_SkipOnSignal(lp, tok, price, fired) ==
    IF fired # 0 THEN lp ELSE DictSet(lp, tok, price)

\* _last_price after evaluate() has returned the signal of rule `fired` (0: no
\* signal): the update precedes the rule loop, whatever the loop returns
LastPriceAfter(lp, tok, price, fired) == DictSet(lp, tok, price)

NoEval ==
    [kind |-> "none", token |-> NoToken, price |-> None, prev |-> None,
     gprev |-> None, fired |-> 0, elapsed |-> {}, ltSame |-> {},
     tTrig |-> None, gapFrom |-> None]

S2Rules == << Rule("T1", "BUY", 30, "below", DefaultCooldown) >>
S2Prices == << 2 * 35, 2 * 25, 2 * 33, 2 * 25 >>
S2Off == [step |-> -1, sigs |-> 0, t0 |-> None, t1 |-> None]

\* progress of the scenario after a price was delivered for T1
S2Next(price, fired, t) ==
    IF /\ s2.step >= 0
       /\ s2.step < Len(S2Prices)
       /\ rules = S2Rules
       /\ price = S2Prices[s2.step + 1]
    THEN [step |-> s2.step + 1,
          sigs |-> s2.sigs + (IF fired # 0 THEN 1 ELSE 0),
          t0 |-> IF s2.step = 0 THEN t ELSE s2.t0,
          t1 |-> t]
    ELSE S2Off

\* rules of the event's token whose cooldown, by the history g_sig, is over
ElapsedAt(idxs, t) ==
    { i \in { idxs[k] : k \in 1..Len(idxs) } :
        t - DictGet(g_sig, RuleKey(rules[i]), 0) >= rules[i].cooldown_seconds }

\* evaluate(event)
Evaluate(e) ==
    LET idxs == RulesByToken(rules, e.token_id)
        price == GetPrice(e)
        prev == DictGet(last_price, e.token_id, None)
        fired == FirstFiring(idxs, rules, price, prev, now, last_trigger)
    IN
    IF ~IsMarketEvent(e) \/ idxs = <<>> \/ price = None
    THEN /\ lastEval' = [NoEval EXCEPT !.kind = "ignored", !.token = e.token_id]
         /\ UNCHANGED <<rules, last_trigger, last_price, now, g_obs, g_sig, s2>>
    ELSE /\ last_price' = LastPriceAfter(last_price, e.token_id, price, fired)
         /\ g_obs' = DictSet(g_obs, e.token_id, price)
         /\ UNCHANGED rules
         /\ IF fired = 0
            THEN /\ UNCHANGED <<last_trigger, now, g_sig>>
                 /\ lastEval' =
                        [kind |-> "eval", token |-> e.token_id, price |-> price,
                         prev |-> prev,
                         gprev |-> DictGet(g_obs, e.token_id, None),
                         fired |-> 0, elapsed |-> ElapsedAt(idxs, now),
                         ltSame |-> 1..Len(rules),
                         tTrig |-> None, gapFrom |-> None]
                 /\ s2' = IF e.token_id = "T1" THEN S2Next(price, 0, now) ELSE s2
            ELSE \E d \in {0, Step} :
                 /\ now + d <= MaxTime
                 /\ now' = now + d
                 /\ last_trigger' =
                        DictSet(last_trigger, RuleKey(rules[fired]), now + d)
                 /\ g_sig' = DictSet(g_sig, RuleKey(rules[fired]), now + d)
                 /\ lastEval' =
                        [kind |-> "eval", token |-> e.token_id, price |-> price,
                         prev |-> prev,
                         gprev |-> DictGet(g_obs, e.token_id, None),
                         fired |-> fired, elapsed |-> ElapsedAt(idxs, now),
                         ltSame |-> { i \in 1..Len(rules) :
                                        DictGet(last_trigger', RuleKey(rules[i]), None)
                                          = DictGet(last_trigger, RuleKey(rules[i]), None) },
                         tTrig |-> now + d,
                         gapFrom |-> DictGet(g_sig, RuleKey(rules[fired]), None)]
                 /\ s2' = IF e.token_id = "T1" THEN S2Next(price, fired, now) ELSE s2

ParserEvaluate == (\E e \in EventPool : Evaluate(e)) /\ UNCHANGED <<orchVars, ing, mgr, compVars>>

\* add_rule(rule)
AddRule ==
    \E r \in RulePool :
        /\ Len(rules) < MaxRules
        /\ rules' = Append(rules, r)
        /\ lastEval' = NoEval
        /\ s2' = IF s2.step = 0 THEN s2 ELSE S2Off
        /\ UNCHANGED <<last_trigger, last_price, now, g_obs, g_sig>>
        /\ UNCHANGED <<orchVars, ing, mgr, compVars>>

\* reset()
Reset ==
    /\ last_trigger' = EmptyDict
    /\ last_price' = EmptyDict
    /\ g_obs' = EmptyDict
    /\ g_sig' = EmptyDict
    /\ lastEval' = NoEval
    /\ s2' = S2Off
    /\ UNCHANGED <<rules, now>>
    /\ UNCHANGED <<orchVars, ing, mgr, compVars>>

\* time passes between two calls
Tick ==
    /\ now + Step <= MaxTime
    /\ now' = now + Step
    /\ lastEval' = NoEval
    /\ UNCHANGED <<rules, last_trigger, last_price, g_obs, g_sig, s2>>
    /\ UNCHANGED <<orchVars, ing, mgr, compVars>>

InitParser ==
    /\ rules = <<>>
    /\ last_trigger = EmptyDict
    /\ last_price = EmptyDict
    /\ now = Epoch
    /\ g_obs = EmptyDict
    /\ g_sig = EmptyDict
    /\ lastEval = NoEval
    /\ s2 = [step |-> 0, sigs |-> 0, t0 |-> None, t1 |-> None]

NextParser == ParserEvaluate \/ AddRule \/ Reset \/ Tick

(***************************************************************************)
(* Orchestrator                                                            *)
(***************************************************************************)
Sources == {"A", "B"}
NoEvent == <<"none", 0>>

\* PortfolioManager(max_positions=10)
MaxPositions == 10
\* worst-case price 1.0 of check_order, in cents
WorstPrice == 100
\* cash balance loaded at start, in cents
StartCash == 2 * WorstPrice

Order(tok, side, qty, limit) ==
    [token_id |-> tok, side |-> side, quantity |-> qty, limit_price |-> limit]

OrderPool == { Order("T1", side, 1, None) : side \in {"BUY", "SELL"} }

OrderLists ==
    UNION { [1..n -> OrderPool] : n \in 0..MaxOrders }

\* ExecutionResult: filled_price in cents; a result that did not fill carries
\* filled_size 0 and the submitted price as filled_price
ResultPool ==
    { [status |-> "FILLED", filled_price |-> 50, filled_size |-> fs, fees_paid |-> 0] :
        fs \in {0, 1} }
    \cup { [status |-> "REJECTED", filled_price |-> 50, filled_size |-> 0, fees_paid |-> 0] }
NoFill == [status |-> "PENDING", filled_price |-> 0, filled_size |-> 0, fees_paid |-> 0]

Config(srcs, mode, pf, tl, db) ==
    [sources |-> srcs, mode |-> mode, portfolio |-> pf, trade_logger |-> tl,
     database |-> db]

\* two ingesters feeding parsers, with a trade journal
ParsersConfig == Config(Sources, "parsers", FALSE, TRUE, FALSE)

\* one ingester feeding strategies, with portfolio, journal and database
StrategiesConfig == Config({"A"}, "strategies", TRUE, TRUE, TRUE)

\* one ingester feeding parsers, with a portfolio attached as well
ParsersPortfolioConfig == Config({"A"}, "parsers", TRUE, TRUE, TRUE)

\* a failure may still be injected
CanFail == faults < MaxFaults
Fail == CanFail /\ faults' = faults + 1

ZeroMetrics ==
    [events_processed |-> 0, signals_generated |-> 0,
     trades_executed |-> 0, errors_encountered |-> 0]

Bump(m, field) == [m EXCEPT ![field] = @ + 1]

\* variant: the loop never looks at the flag
LoopCondition_Always(running) == TRUE

\* `while self._is_running`
LoopCondition(running) == running

\* variant: the newest event is taken
QueueGet_Newest(q) == [ev |-> q[Len(q)], rest |-> SubSeq(q, 1, Len(q) - 1)]

\* asyncio.Queue.get / get_nowait: first in, first out
QueueGet(q) == [ev |-> Head(q), rest |-> Tail(q)]

\* variant: the loop breaks without draining
DrainPending_Never(q) == FALSE

\* `while not self._event_queue.empty()`
DrainPending(q) == q # <<>>

\* variant: the parsers are visited last to first
ParserAt_Reversed(k) == NumHandlers + 1 - k

\* `for parser in self._parsers`: the k-th parser visited
ParserAt(k) == k

\* variant: the journal is written before the portfolio is updated
FillStages_JournalFirst(c) ==
    (IF c.trade_logger THEN <<"journal">> ELSE <<>>)
    \o (IF c.portfolio THEN <<"on_fill">> ELSE <<>>)
    \o <<"notify">>
    \o (IF c.database THEN <<"insert">> ELSE <<>>)

\* what _execute_order does with a result, in order: portfolio.on_fill,
\* strategy.on_fill and the trade_executed callback, trade_logger.log_execution,
\* database.insert_trade
FillStages(c) ==
    (IF c.portfolio THEN <<"on_fill">> ELSE <<>>)
    \o <<"notify">>
    \o (IF c.trade_logger THEN <<"journal">> ELSE <<>>)
    \o (IF c.database THEN <<"insert">> ELSE <<>>)

\* variant: a new position is refused only above max_positions
PortfolioCheck_AboveCap(o, qty, balance, max_positions) ==
    IF o.side = "BUY"
    THEN LET price == IF o.limit_price # None THEN o.limit_price ELSE WorstPrice
             cost == o.quantity * price
         IN /\ ~(cost > balance)
            /\ ~(o.token_id \notin DOMAIN qty /\ Cardinality(DOMAIN qty) > max_positions)
    ELSE /\ o.token_id \in DOMAIN qty
         /\ ~(qty[o.token_id] < o.quantity)

\* variant: an order costing the whole balance is refused
PortfolioCheck_StrictCash(o, qty, balance, max_positions) ==
    IF o.side = "BUY"
    THEN LET price == IF o.limit_price # None THEN o.limit_price ELSE WorstPrice
             cost == o.quantity * price
         IN /\ ~(cost >= balance)
            /\ ~(o.token_id \notin DOMAIN qty /\ Cardinality(DOMAIN qty) >= max_positions)
    ELSE /\ o.token_id \in DOMAIN qty
         /\ ~(qty[o.token_id] < o.quantity)

\* PortfolioManager.check_order for a manager built with max_positions, whose
\* ledger holds qty[token] shares of each token in DOMAIN qty
PortfolioCheck(o, qty, balance, max_positions) ==
    IF o.side = "BUY"
    THEN LET price == IF o.limit_price # None THEN o.limit_price ELSE WorstPrice
             cost == o.quantity * price
         IN /\ ~(cost > balance)
            /\ ~(o.token_id \notin DOMAIN qty /\ Cardinality(DOMAIN qty) >= max_positions)
    ELSE /\ o.token_id \in DOMAIN qty
         /\ ~(qty[o.token_id] < o.quantity)

\* PortfolioManager.check_order with the default max_positions
CheckOrder(o, pos, balance) == PortfolioCheck(o, pos, balance, MaxPositions)

\* on_fill: the size applied
FilledSize(o, r) == IF r.filled_size > 0 THEN r.filled_size ELSE o.quantity

DictDel(d, key) == [k \in (DOMAIN d) \ {key} |-> d[k]]

\* what _handle_buy_fill / _handle_sell_fill do for an order: "none" (sell of
\* an unknown position), "delete" (position closed) or "upsert"
FillOp(o, r, pos) ==
    IF o.side = "BUY" THEN "upsert"
    ELSE IF o.token_id \notin DOMAIN pos THEN "none"
    ELSE IF pos[o.token_id] - FilledSize(o, r) <= 0 THEN "delete"
    ELSE "upsert"

\* _positions after the fill
PositionsAfter(o, r, pos) ==
    IF o.side = "BUY"
    THEN DictSet(pos, o.token_id, DictGet(pos, o.token_id, 0) + FilledSize(o, r))
    ELSE IF FillOp(o, r, pos) = "none" THEN pos
    ELSE IF FillOp(o, r, pos) = "delete" THEN DictDel(pos, o.token_id)
    ELSE DictSet(pos, o.token_id, pos[o.token_id] - FilledSize(o, r))

PositionRow(tok, qty) == [token_id |-> tok, quantity |-> qty]

\* variant: a plain INSERT into a table without the key
UpsertPosition_Insert(tbl, tok, qty) == tbl \cup {PositionRow(tok, qty)}

\* DatabaseManager.upsert_position: INSERT ... ON CONFLICT(token_id) DO UPDATE
UpsertPosition(tbl, tok, qty) ==
    IF \E r \in tbl : r.token_id = tok
    THEN { IF r.token_id = tok THEN PositionRow(tok, qty) ELSE r : r \in tbl }
    ELSE tbl \cup {PositionRow(tok, qty)}

\* DatabaseManager.delete_position: DELETE FROM positions WHERE token_id = ?
DeletePosition(tbl, tok) == { r \in tbl : r.token_id # tok }

\* _cash_balance after the fill
CashAfter(o, r, balance) ==
    IF o.side = "BUY"
    THEN balance - (FilledSize(o, r) * r.filled_price + r.fees_paid)
    ELSE balance + (FilledSize(o, r) * r.filled_price - r.fees_paid)

\* variant: the except clause tells the observers and counts nothing
OnError_Uncounted ==
    /\ notified' = notified + 1
    /\ UNCHANGED metrics

\* variant: the except clause counts the error and tells no observer
OnError_Silent ==
    /\ metrics' = Bump(metrics, "errors_encountered")
    /\ UNCHANGED notified

\* the except clauses of _process_with_parsers, _process_with_strategies and
\* _execute_order: count the error, emit on_error
OnError ==
    /\ metrics' = Bump(metrics, "errors_encountered")
    /\ notified' = notified + 1

\* variant: orders go to the executor unvalidated
Validates_Never(c) == FALSE

\* _execute_order: `if self._portfolio:` guards check_order
Validates(c) == c.portfolio

\* variant: one finished forwarding task is enough
NoManager == [pc |-> "none"]

AllDone_Any == \E s \in cfg.sources : task[s] = "done"

\* `all(task.done() for task in self._ingester_tasks)`
AllDone == \A s \in cfg.sources : task[s] = "done"

\* task.cancel() on every forwarding task
CancelAll(t) ==
    [s \in Sources |-> IF t[s] = "running" THEN "cancelling" ELSE t[s]]

loopVars == <<cur, pi, in_drain, orders, fill, evalLog, execOpen, writes, checked>>
storeVars == <<positions, cash, db_positions, db_trades, journal>>
prodVars == <<queue, task, emitted, put>>
ctlVars == <<cfg, is_running, connected, ext_pc, shutdown_requested, cancelled>>

\* start() up to the main loop: executor.setup(), connect(), create the tasks
Start ==
    /\ pc = "init"
    /\ \/ /\ is_running' = TRUE
          /\ connected' = [s \in Sources |-> s \in cfg.sources]
          /\ task' = [s \in Sources |-> IF s \in cfg.sources THEN "running" ELSE "none"]
          /\ pc' = "loop"
          /\ UNCHANGED faults
       \/ /\ Fail
          /\ pc' = "failed"
          /\ UNCHANGED <<is_running, connected, task>>
    /\ UNCHANGED <<cfg, queue, emitted, put, ext_pc, shutdown_requested, cancelled,
                   metrics, notified, processed>>
    /\ UNCHANGED <<loopVars, storeVars, parserVars, ing, mgr, compVars>>

\* asyncio.Queue() is constructed without maxsize: 0, which is no limit
QueueMaxsize == 0

\* asyncio.Queue.full(): never with maxsize <= 0
QueueFull(q) == QueueMaxsize > 0 /\ Len(q) >= QueueMaxsize

\* _forward_stream: the stream yields its next event; put() waits while the
\* queue is full
Forward(s) ==
    /\ task[s] = "running"
    /\ emitted[s] < StreamLen
    /\ is_running => ~QueueFull(queue)
    /\ emitted' = [emitted EXCEPT ![s] = @ + 1]
    /\ IF ~is_running
       THEN /\ task' = [task EXCEPT ![s] = "done"]
            /\ UNCHANGED <<queue, put>>
       ELSE /\ queue' = Append(queue, <<s, emitted[s] + 1>>)
            /\ put' = Append(put, <<s, emitted[s] + 1>>)
            /\ UNCHANGED task
    /\ UNCHANGED <<ctlVars, faults, pc, metrics, notified, processed, loopVars, storeVars,
                   parserVars, ing, mgr, compVars>>

\* _forward_stream: the stream ends or raises, or the task's cancellation
\* is delivered
ForwardEnds(s) ==
    /\ task[s] \in {"running", "cancelling"}
    /\ task' = [task EXCEPT ![s] = "done"]
    /\ UNCHANGED <<queue, emitted, put>>
    /\ UNCHANGED <<ctlVars, faults, pc, metrics, notified, processed, loopVars, storeVars,
                   parserVars, ing, mgr, compVars>>

\* the synchronous head of stop(): clear the flag, cancel the tasks
StopBegin ==
    /\ is_running' = FALSE
    /\ task' = CancelAll(task)

\* the loop test of start()
LoopTest ==
    /\ pc = "loop"
    /\ IF LoopCondition(is_running)
       THEN /\ pc' = "get"
            /\ UNCHANGED <<is_running, task>>
       ELSE /\ StopBegin
            /\ pc' = "stop_wait"
    /\ UNCHANGED <<cfg, connected, ext_pc, shutdown_requested, cancelled, queue,
                   emitted, put, metrics, notified, processed, faults>>
    /\ UNCHANGED <<loopVars, storeVars, parserVars, ing, mgr, compVars>>

\* the head of _process_event for event e
ProcessBegin(e) ==
    /\ cur' = e
    /\ metrics' = Bump(metrics, "events_processed") /\ UNCHANGED notified
    /\ processed' = Append(processed, e)
    /\ pi' = 1
    /\ evalLog' = <<>>
    /\ pc' = IF cfg.mode = "strategies" THEN "tick" ELSE "eval"

\* wait_for(queue.get()) returns an event
GetEvent ==
    /\ pc = "get"
    /\ queue # <<>>
    /\ queue' = QueueGet(queue).rest
    /\ ProcessBegin(QueueGet(queue).ev)
    /\ UNCHANGED <<ctlVars, faults, task, emitted, put, in_drain, orders, checked, fill,
                   execOpen, writes>>
    /\ UNCHANGED <<storeVars, parserVars, ing, mgr, compVars>>

\* wait_for(queue.get()) times out
GetTimeout ==
    /\ pc = "get"
    /\ queue = <<>>
    /\ pc' = "timeout"
    /\ UNCHANGED <<ctlVars, faults, prodVars, metrics, notified, processed, loopVars,
                   storeVars, parserVars, ing, mgr, compVars>>

\* the TimeoutError handler: are all forwarding tasks done?
TimeoutCheck ==
    /\ pc = "timeout"
    /\ IF AllDone
       THEN pc' = "drain" /\ in_drain' = TRUE
       ELSE pc' = "loop" /\ UNCHANGED in_drain
    /\ UNCHANGED <<ctlVars, faults, prodVars, metrics, notified, processed, cur, pi, orders, checked,
                   fill, evalLog, execOpen, writes, storeVars, parserVars, ing, mgr, compVars>>

\* the residual drain loop, then `break` into the finally clause
Drain ==
    /\ pc = "drain"
    /\ IF DrainPending(queue)
       THEN /\ queue' = QueueGet(queue).rest
            /\ ProcessBegin(QueueGet(queue).ev)
            /\ UNCHANGED <<is_running, task>>
       ELSE /\ StopBegin
            /\ pc' = "stop_wait"
            /\ UNCHANGED <<queue, cur, metrics, notified, processed, pi, evalLog>>
    /\ UNCHANGED <<cfg, connected, ext_pc, shutdown_requested, cancelled, emitted,
                   put, in_drain, orders, checked, fill, execOpen, writes, faults>>
    /\ UNCHANGED <<storeVars, parserVars, ing, mgr, compVars>>

\* the tail of _process_event: metrics callback, back to the loop
ProcessEnd ==
    /\ pc \in {"eval", "tick"}
    /\ pi > NumHandlers
    /\ cur' = NoEvent
    /\ pc' = IF in_drain THEN "drain" ELSE "loop"
    /\ UNCHANGED <<ctlVars, faults, prodVars, metrics, notified, processed, pi, in_drain,
                   orders, checked, fill, evalLog, execOpen, writes, storeVars, parserVars, ing, mgr, compVars>>

\* _process_with_parsers: parser.evaluate(event) returns None, raises, or
\* returns a signal
EvalParser ==
    /\ pc = "eval"
    /\ pi <= NumHandlers
    /\ evalLog' = Append(evalLog, [parser |-> ParserAt(pi), execOpen |-> execOpen])
    /\ \/ /\ pi' = pi + 1
          /\ UNCHANGED <<pc, metrics, notified, execOpen, faults>>
       \/ /\ Fail
          /\ OnError
          /\ pi' = pi + 1
          /\ UNCHANGED <<pc, execOpen>>
       \/ /\ metrics.signals_generated < MaxSignals
          /\ metrics' = Bump(metrics, "signals_generated") /\ UNCHANGED notified
          /\ pc' = "exec"
          /\ execOpen' = ParserAt(pi)
          /\ UNCHANGED <<pi, faults>>
    /\ UNCHANGED <<ctlVars, prodVars, processed, cur, in_drain, orders, checked, fill,
                   writes, storeVars, parserVars, ing, mgr, compVars>>

\* _process_with_parsers: executor.execute(signal) returns or raises
ExecReturn ==
    /\ pc = "exec"
    /\ execOpen' = 0
    /\ \/ /\ metrics' = Bump(metrics, "trades_executed") /\ UNCHANGED notified
          /\ IF cfg.trade_logger
             THEN pc' = "log" /\ UNCHANGED pi
             ELSE pc' = "eval" /\ pi' = pi + 1
          /\ UNCHANGED faults
       \/ /\ Fail
          /\ OnError
          /\ pc' = "eval"
          /\ pi' = pi + 1
    /\ UNCHANGED <<ctlVars, prodVars, processed, cur, in_drain, orders, checked, fill,
                   evalLog, writes, storeVars, parserVars, ing, mgr, compVars>>

\* _process_with_parsers: trade_logger.log_execution returns (an OSError is
\* swallowed by the logger and nothing is appended)
LogReturn ==
    /\ pc = "log"
    /\ \/ journal' = journal + 1 /\ UNCHANGED faults
       \/ Fail /\ UNCHANGED journal
    /\ pc' = "eval"
    /\ pi' = pi + 1
    /\ UNCHANGED <<ctlVars, prodVars, metrics, notified, processed, cur, in_drain, orders, checked,
                   fill, evalLog, execOpen, writes, positions, cash, db_positions,
                   db_trades, parserVars, ing, mgr, compVars>>

\* _process_with_strategies: strategy.on_tick and generate_signals
StrategyTick ==
    /\ pc = "tick"
    /\ pi <= NumHandlers
    /\ \/ /\ Fail
          /\ OnError
          /\ pi' = pi + 1
          /\ UNCHANGED <<pc, orders, checked>>
       \/ \E os \in OrderLists :
             /\ metrics.signals_generated + Len(os) <= MaxSignals
             /\ orders' = os /\ checked' = "no"
             /\ pc' = "order"
             /\ UNCHANGED <<pi, metrics, notified, faults>>
    /\ UNCHANGED <<ctlVars, prodVars, processed, cur, in_drain, fill, evalLog,
                   execOpen, writes, storeVars, parserVars, ing, mgr, compVars>>

\* _execute_order up to executor.execute: portfolio validation
NextOrder ==
    /\ pc = "order"
    /\ IF orders = <<>>
       THEN /\ pi' = pi + 1
            /\ pc' = "tick"
            /\ UNCHANGED <<orders, checked, metrics, notified, writes>>
       ELSE IF Validates(cfg) /\ ~CheckOrder(Head(orders), positions, cash)
       THEN /\ orders' = Tail(orders) /\ checked' = "rejected"
            /\ UNCHANGED <<pc, pi, metrics, notified, writes>>
       ELSE /\ metrics' = Bump(metrics, "signals_generated") /\ UNCHANGED notified
            /\ pc' = "xexec"
            /\ writes' = <<>>
            /\ checked' = IF Validates(cfg) THEN "passed" ELSE "no"
            /\ UNCHANGED <<orders, pi>>
    /\ UNCHANGED <<ctlVars, faults, prodVars, processed, cur, in_drain, fill,
                   evalLog, execOpen, storeVars, parserVars, ing, mgr, compVars>>

\* the order is finished (or failed): on to the next one
OrderDone ==
    /\ orders' = Tail(orders) /\ checked' = "no"
    /\ pc' = "order"
    /\ fill' = [result |-> NoFill, stages |-> <<>>]

\* _execute_order: _execute_order_impl returns a result or raises
OrderExecReturn ==
    /\ pc = "xexec"
    /\ \/ /\ Fail
          /\ OnError
          /\ OrderDone
       \/ \E r \in ResultPool :
             /\ metrics' = Bump(metrics, "trades_executed") /\ UNCHANGED notified
             /\ fill' = [result |-> r, stages |-> FillStages(cfg)]
             /\ pc' = "stage"
             /\ UNCHANGED <<orders, checked, faults>>
    /\ UNCHANGED <<ctlVars, prodVars, processed, cur, pi, in_drain, evalLog,
                   execOpen, writes, storeVars, parserVars, ing, mgr, compVars>>

\* portfolio.on_fill up to the store call: the position ledger is mutated
OnFillBegin ==
    /\ pc = "stage"
    /\ fill.stages # <<>> /\ Head(fill.stages) = "on_fill"
    /\ LET o == Head(orders)
           op == FillOp(o, fill.result, positions)
       IN /\ positions' = PositionsAfter(o, fill.result, positions)
          /\ IF op = "none"
             THEN /\ cash' = CashAfter(o, fill.result, cash)
                  /\ writes' = Append(writes, "cash")
                  /\ fill' = [fill EXCEPT !.stages = Tail(@)]
                  /\ UNCHANGED pc
             ELSE /\ writes' = Append(writes, "position")
                  /\ pc' = "store"
                  /\ UNCHANGED <<cash, fill>>
    /\ UNCHANGED <<ctlVars, faults, prodVars, metrics, notified, processed, cur, pi, in_drain,
                   orders, checked, evalLog, execOpen, db_positions, db_trades, journal,
                   parserVars, ing, mgr, compVars>>

\* portfolio.on_fill: upsert_position / delete_position returns, then the cash
\* balance is updated; or the store raises and _execute_order gives up
StoreReturn ==
    /\ pc = "store"
    /\ LET o == Head(orders) IN
       \/ /\ db_positions' =
                 IF o.token_id \in DOMAIN positions
                 THEN UpsertPosition(db_positions, o.token_id, positions[o.token_id])
                 ELSE DeletePosition(db_positions, o.token_id)
          /\ cash' = CashAfter(o, fill.result, cash)
          /\ writes' = writes \o <<"store_position", "cash">>
          /\ fill' = [fill EXCEPT !.stages = Tail(@)]
          /\ pc' = "stage"
          /\ UNCHANGED <<metrics, notified, orders, checked, faults>>
       \/ /\ Fail
          /\ OnError
          /\ OrderDone
          /\ UNCHANGED <<db_positions, cash, writes>>
    /\ UNCHANGED <<ctlVars, prodVars, processed, cur, pi, in_drain, evalLog,
                   execOpen, positions, db_trades, journal, parserVars, ing, mgr, compVars>>

\* strategy.on_fill, the TradeSignal for the callbacks, _emit_trade_executed
Notify ==
    /\ pc = "stage"
    /\ fill.stages # <<>> /\ Head(fill.stages) = "notify"
    /\ \/ /\ fill' = [fill EXCEPT !.stages = Tail(@)]
          /\ UNCHANGED <<pc, orders, checked, metrics, notified, faults>>
       \/ /\ Fail
          /\ OnError
          /\ OrderDone
    /\ UNCHANGED <<ctlVars, prodVars, processed, cur, pi, in_drain, evalLog,
                   execOpen, writes, storeVars, parserVars, ing, mgr, compVars>>

\* trade_logger.log_execution returns (an OSError is swallowed by the logger
\* and nothing is appended)
JournalReturn ==
    /\ pc = "stage"
    /\ fill.stages # <<>> /\ Head(fill.stages) = "journal"
    /\ \/ journal' = journal + 1 /\ writes' = Append(writes, "journal")
          /\ UNCHANGED faults
       \/ Fail /\ UNCHANGED <<journal, writes>>
    /\ fill' = [fill EXCEPT !.stages = Tail(@)]
    /\ UNCHANGED <<ctlVars, prodVars, metrics, notified, processed, cur, pi, in_drain, orders, checked,
                   pc, evalLog, execOpen, positions, cash, db_positions, db_trades,
                   parserVars, ing, mgr, compVars>>

\* database.insert_trade returns or raises
InsertReturn ==
    /\ pc = "stage"
    /\ fill.stages # <<>> /\ Head(fill.stages) = "insert"
    /\ \/ /\ db_trades' = db_trades + 1
          /\ writes' = Append(writes, "store_trade")
          /\ fill' = [fill EXCEPT !.stages = Tail(@)]
          /\ UNCHANGED <<pc, orders, checked, metrics, notified, faults>>
       \/ /\ Fail
          /\ OnError
          /\ OrderDone
          /\ UNCHANGED <<db_trades, writes>>
    /\ UNCHANGED <<ctlVars, prodVars, processed, cur, pi, in_drain, evalLog,
                   execOpen, positions, cash, db_positions, journal, parserVars, ing, mgr, compVars>>

\* _execute_order returns
FillEnd ==
    /\ pc = "stage"
    /\ fill.stages = <<>>
    /\ OrderDone
    /\ UNCHANGED <<ctlVars, faults, prodVars, metrics, notified, processed, cur, pi, in_drain,
                   evalLog, execOpen, writes, storeVars, parserVars, ing, mgr, compVars>>

\* the places where start() is suspended in an await
AwaitPcs == {"get", "timeout", "exec", "log", "xexec", "store", "stage"}

\* the task running start() is cancelled (main.py on SIGINT / SIGTERM):
\* CancelledError leaves the loop, the finally clause calls stop()
Cancel ==
    /\ pc \in AwaitPcs
    /\ ~cancelled
    /\ cancelled' = TRUE
    /\ shutdown_requested' = TRUE
    /\ StopBegin
    /\ pc' = "stop_wait"
    /\ execOpen' = 0
    /\ UNCHANGED <<cfg, connected, ext_pc, queue, emitted, put, metrics, notified, processed,
                   cur, pi, in_drain, orders, checked, fill, evalLog, writes, faults>>
    /\ UNCHANGED <<storeVars, parserVars, ing, mgr, compVars>>

\* stop() called by another task while the pipeline runs
ExternalStop ==
    /\ pc \notin {"init", "failed", "stopped"}
    /\ ext_pc = "idle"
    /\ StopBegin
    /\ ext_pc' = "waiting"
    /\ shutdown_requested' = TRUE
    /\ UNCHANGED <<cfg, connected, cancelled, queue, emitted, put, pc, metrics, notified,
                   processed, faults>>
    /\ UNCHANGED <<loopVars, storeVars, parserVars, ing, mgr, compVars>>

\* stop(), after gather: disconnect every ingester
ExternalStopEnd ==
    /\ ext_pc = "waiting"
    /\ AllDone
    /\ connected' = [s \in Sources |-> FALSE]
    /\ ext_pc' = "done"
    /\ UNCHANGED <<cfg, is_running, shutdown_requested, cancelled, prodVars, pc,
                   metrics, notified, processed, faults>>
    /\ UNCHANGED <<loopVars, storeVars, parserVars, ing, mgr, compVars>>

\* the stop() of the finally clause, after gather: disconnect every ingester
StopEnd ==
    /\ pc = "stop_wait"
    /\ AllDone
    /\ connected' = [s \in Sources |-> FALSE]
    /\ pc' = "stopped"
    /\ UNCHANGED <<cfg, is_running, ext_pc, shutdown_requested, cancelled, prodVars,
                   metrics, notified, processed, faults>>
    /\ UNCHANGED <<loopVars, storeVars, parserVars, ing, mgr, compVars>>

OrchInitWith(c) ==
    /\ cfg = c
    /\ faults = 0
    /\ is_running = FALSE
    /\ queue = <<>>
    /\ task = [s \in Sources |-> "none"]
    /\ emitted = [s \in Sources |-> 0]
    /\ connected = [s \in Sources |-> FALSE]
    /\ pc = "init"
    /\ ext_pc = "idle"
    /\ cur = NoEvent
    /\ pi = 0
    /\ in_drain = FALSE
    /\ orders = <<>>
    /\ fill = [result |-> NoFill, stages |-> <<>>]
    /\ metrics = ZeroMetrics
    /\ positions = EmptyDict
    /\ cash = StartCash
    /\ db_positions = {}
    /\ db_trades = 0
    /\ journal = 0
    /\ processed = <<>>
    /\ put = <<>>
    /\ shutdown_requested = FALSE
    /\ cancelled = FALSE
    /\ evalLog = <<>>
    /\ execOpen = 0
    /\ writes = <<>>
    /\ notified = 0
    /\ checked = "no"

\* start(): the main loop and its shutdown
LoopNext ==
    \/ Start \/ LoopTest \/ GetEvent \/ GetTimeout \/ TimeoutCheck \/ Drain
    \/ ProcessEnd \/ StopEnd

\* _process_with_parsers
ParsersNext == EvalParser \/ ExecReturn \/ LogReturn

\* _process_with_strategies and _execute_order
StrategiesNext ==
    \/ StrategyTick \/ NextOrder \/ OrderExecReturn \/ OnFillBegin \/ StoreReturn
    \/ Notify \/ JournalReturn \/ InsertReturn \/ FillEnd

ProducerNext == \E s \in Sources : Forward(s) \/ ForwardEnds(s)

ShutdownNext == Cancel \/ ExternalStop \/ ExternalStopEnd

NextOrch == LoopNext \/ ParsersNext \/ ProducerNext \/ ShutdownNext

NextFill == LoopNext \/ StrategiesNext \/ ProducerNext \/ ShutdownNext

NextPipeline ==
    LoopNext \/ ParsersNext \/ StrategiesNext \/ ProducerNext \/ ShutdownNext

(***************************************************************************)
(* PolymarketIngester                                                      *)
(***************************************************************************)
MAX_RECONNECT_ATTEMPTS == 5

CatalogTokens == {"T1", "T2", "T3"}

\* PolymarketIngester.__init__, with tokens already registered
NewIngester(tokens) ==
    [subscribed_tokens |-> tokens,   \* _subscribed_tokens
     is_connected |-> FALSE,         \* _is_connected (and _ws is not None)
     reconnect_attempts |-> 0,       \* _reconnect_attempts
     should_run |-> FALSE,           \* _should_run
     pc |-> "idle",                  \* position of connect() / stream()
     via |-> "none",                 \* _reconnect was called from the try body or the except clause
     server |-> {},                  \* tokens sent on the current connection
     pre |-> {},                     \* history: tokens registered when the outage began
     outage |-> 0,                   \* history: attempts made in the current outage
     failed_run |-> 0,               \* history: consecutive connect() calls that failed
     send_faults |-> 0,              \* history: subscription sends that failed
     yielded |-> 0,                  \* history: events yielded
     disconnected |-> FALSE]         \* history: disconnect() has been called

\* _cleanup(): the connection and its server-side subscriptions are gone
Cleanup(i) == [i EXCEPT !.is_connected = FALSE, !.server = {}]

\* variant: connect() sends no subscription
Resend_Nothing(tokens) == {}

\* connect(): _send_subscription(list(self._subscribed_tokens))
Resend(tokens) == tokens

\* connect() succeeds
ConnectOk(i) ==
    [i EXCEPT !.is_connected = TRUE, !.reconnect_attempts = 0,
              !.should_run = TRUE, !.server = Resend(i.subscribed_tokens)]

\* connect(): ws_connect raises, _cleanup(), ConnectionError
ConnectRefused(i) == Cleanup(i)

\* connect(): ws_connect succeeds and the fields are set, then
\* _send_subscription raises: _cleanup(), ConnectionError
ConnectSendFails(i) ==
    Cleanup([i EXCEPT !.reconnect_attempts = 0, !.should_run = TRUE,
                      !.send_faults = @ + 1])

CanSendFail(i) == i.subscribed_tokens # {} /\ i.send_faults < MaxSendFaults

\* subscribe(token_ids) that returns normally
SubscribeOk(i, tok) ==
    [i EXCEPT !.subscribed_tokens = @ \cup {tok},
              !.server = IF i.is_connected THEN @ \cup {tok} ELSE @]

\* subscribe(token_ids) that raises SubscriptionError: the token set was
\* updated before the send
SubscribeFails(i, tok) ==
    [i EXCEPT !.subscribed_tokens = @ \cup {tok}, !.send_faults = @ + 1]

\* the first connect(), made by Orchestrator.start()
IngConnect ==
    /\ ing.pc = "idle"
    /\ \/ ing' = [ConnectOk(ing) EXCEPT !.pc = "ready"]
       \/ ing' = [ConnectRefused(ing) EXCEPT !.pc = "connect_failed"]
       \/ /\ CanSendFail(ing)
          /\ ing' = [ConnectSendFails(ing) EXCEPT !.pc = "connect_failed"]
    /\ UNCHANGED <<parserVars, orchVars, mgr, compVars>>

\* stream() is entered
IngStream ==
    /\ ing.pc = "ready"
    /\ ing' = [ing EXCEPT !.pc = IF ing.is_connected THEN "recv" ELSE "failed"]
    /\ UNCHANGED <<parserVars, orchVars, mgr, compVars>>

\* stream(): a TEXT message is parsed and yielded
IngYield ==
    /\ ing.pc = "recv" /\ ing.should_run
    /\ ing.yielded < MaxYield
    /\ ing' = [ing EXCEPT !.yielded = @ + 1]
    /\ UNCHANGED <<parserVars, orchVars, mgr, compVars>>

\* stream(): a CLOSED or ERROR message ("try"), or receive raises ("handler"):
\* _reconnect() is called and begins with _cleanup()
IngDrop ==
    /\ ing.pc = "recv" /\ ing.should_run
    /\ \E v \in {"try", "handler"} :
          ing' = [Cleanup(ing) EXCEPT !.pc = "reconnect", !.via = v,
                                      !.pre = ing.subscribed_tokens,
                                      !.outage = 0, !.failed_run = 0]
    /\ UNCHANGED <<parserVars, orchVars, mgr, compVars>>

\* _reconnect(): one turn of the loop: count, back off, connect()
IngReconnectAttempt ==
    /\ ing.pc = "reconnect"
    /\ ing.reconnect_attempts < MAX_RECONNECT_ATTEMPTS
    /\ LET i == [ing EXCEPT !.reconnect_attempts = @ + 1, !.outage = @ + 1] IN
       \/ ing' = [ConnectOk(i) EXCEPT !.pc = "recv", !.via = "none", !.failed_run = 0]
       \/ ing' = [ConnectRefused(i) EXCEPT !.failed_run = @ + 1]
       \/ /\ CanSendFail(i)
          /\ ing' = [ConnectSendFails(i) EXCEPT !.failed_run = @ + 1]
    /\ UNCHANGED <<parserVars, orchVars, mgr, compVars>>

\* _reconnect(): the loop condition fails, ReconnectionExhaustedError; raised
\* inside the try body it is caught by `except Exception`, which calls
\* _reconnect() once more; raised from the except clause it leaves stream()
IngExhausted ==
    /\ ing.pc = "reconnect"
    /\ ~(ing.reconnect_attempts < MAX_RECONNECT_ATTEMPTS)
    /\ ing' = IF ing.via = "try"
              THEN [Cleanup(ing) EXCEPT !.via = "handler"]
              ELSE [ing EXCEPT !.pc = "failed"]
    /\ UNCHANGED <<parserVars, orchVars, mgr, compVars>>

\* the task iterating stream() is cancelled
IngCancel ==
    /\ ing.pc \in {"recv", "reconnect"}
    /\ ing' = [ing EXCEPT !.pc = "ended"]
    /\ UNCHANGED <<parserVars, orchVars, mgr, compVars>>

\* subscribe() called by the application
IngSubscribe ==
    /\ ing.pc \notin {"closed", "connect_failed"}
    /\ \E tok \in CatalogTokens :
          /\ tok \notin ing.subscribed_tokens
          /\ \/ ing' = SubscribeOk(ing, tok)
             \/ /\ ing.is_connected /\ ing.send_faults < MaxSendFaults
                /\ ing' = SubscribeFails(ing, tok)
    /\ UNCHANGED <<parserVars, orchVars, mgr, compVars>>

\* disconnect(): _should_run = False, _cleanup()
Disconnect(i) == [Cleanup(i) EXCEPT !.should_run = FALSE, !.disconnected = TRUE]

\* disconnect(), once the forwarding task is over
IngDisconnect ==
    /\ ing.pc \in {"ready", "ended", "failed"}
    /\ ing' = [Disconnect(ing) EXCEPT !.pc = "closed"]
    /\ UNCHANGED <<parserVars, orchVars, mgr, compVars>>

\* disconnect() called by another task while the task iterating stream() is
\* suspended in _reconnect(), in asyncio.sleep(backoff)
IngDisconnectInReconnect ==
    /\ ing.pc = "reconnect" /\ ~ing.disconnected
    /\ ing' = Disconnect(ing)
    /\ UNCHANGED <<parserVars, orchVars, mgr, compVars>>

NextIngest ==
    \/ IngConnect \/ IngStream \/ IngYield \/ IngDrop \/ IngReconnectAttempt
    \/ IngExhausted \/ IngCancel \/ IngSubscribe \/ IngDisconnect

\* the source with a disconnect() that does not wait for the stream to end
NextDisconnect == NextIngest \/ IngDisconnectInReconnect

(***************************************************************************)
(* SubscriptionManager                                                     *)
(***************************************************************************)
\* DiscoveryStrategy: what the catalog answers for its criteria, and max_markets
Strategy(catalog, max_markets) == [catalog |-> catalog, max_markets |-> max_markets]

StrategyPool ==
    { Strategy(c, m) : c \in {<<"T1", "T2", "T3">>, <<"T2", "T2", "T3">>, <<"T3", "T1">>},
                       m \in {1, 3} }

StrategyLists == UNION { [1..n -> StrategyPool] : n \in 1..MaxStrategies }

GlobalLimits == {1, 2, 4}

\* SubscriptionManager.__init__
NewManager(limit, strategies) ==
    [global_limit |-> limit,         \* _global_limit
     subscribed_count |-> 0,         \* _subscribed_count
     strategies |-> strategies,      \* the argument of execute_strategies
     pc |-> "idle",                  \* position of execute_strategies
     run |-> 0,                      \* number of execute_strategies calls so far
     si |-> 0,                       \* index of the strategy in hand
     results |-> <<>>,               \* discovered markets still to handle
     start_subs |-> {},              \* history: the ingester's tokens when the run began
     start_rules |-> 0,              \* history: number of rules when the run began
     all_ok |-> TRUE,                \* history: no subscribe or add_rule failed in this run
     disc_failed |-> FALSE,          \* history: a discover call has raised
     rule_faults |-> 0,              \* history: add_rule calls that raised
     attempts |-> 0,                 \* history: number of _add_market calls
     sub_failures |-> 0,             \* history: number of failed subscribe calls
     last_tok |-> NoToken]           \* history: token of the last _add_market call

Min(a, b) == IF a <= b THEN a ELSE b

\* variant: off by one
CapReached_OffByOne(m) == m.subscribed_count > m.global_limit

\* `self._subscribed_count >= self._global_limit`
CapReached(m) == m.subscribed_count >= m.global_limit

\* _execute_strategy: limit = min(strategy.max_markets, remaining_global)
StrategyLimit(m, st) == Min(st.max_markets, m.global_limit - m.subscribed_count)

\* GammaClient.discover(criteria, limit): the first `limit` matches
Discover(catalog, limit) == SubSeq(catalog, 1, Min(limit, Len(catalog)))

\* PriceThresholdParser.has_rule_for_token
HasRuleForToken(rs, tok) == \E i \in 1..Len(rs) : rs[i].token_id = tok

\* variant: nothing is ever a duplicate
IsDuplicate_Never(tok) == FALSE

\* variant: only the parser is asked
IsDuplicate_RulesOnly(tok) == HasRuleForToken(rules, tok)

\* _is_duplicate
IsDuplicate(tok) ==
    tok \in ing.subscribed_tokens \/ HasRuleForToken(rules, tok)

\* _create_rule: the strategy's rule template bound to the token
CreateRule(tok) == Rule(tok, "BUY", 30, "below", DefaultCooldown)

\* execute_strategies is called
MgrRun ==
    /\ mgr.pc \in {"idle", "done"}
    /\ mgr.run < MaxRuns
    /\ mgr' = [mgr EXCEPT !.pc = "strategy", !.run = @ + 1, !.si = 1,
                          !.results = <<>>,
                          !.start_subs = ing.subscribed_tokens,
                          !.start_rules = Len(rules), !.all_ok = TRUE]
    /\ UNCHANGED <<parserVars, orchVars, ing, compVars>>

\* execute_strategies: the head of the loop over the strategies
MgrStrategy ==
    /\ mgr.pc = "strategy"
    /\ mgr' = IF mgr.si > Len(mgr.strategies) \/ CapReached(mgr)
              THEN [mgr EXCEPT !.pc = "done"]
              ELSE [mgr EXCEPT !.pc = "execute"]
    /\ UNCHANGED <<parserVars, orchVars, ing, compVars>>

\* _execute_strategy up to the loop over the results
MgrExecuteStrategy ==
    /\ mgr.pc = "execute"
    /\ LET st == mgr.strategies[mgr.si]
           limit == StrategyLimit(mgr, st)
       IN IF limit <= 0
          THEN mgr' = [mgr EXCEPT !.pc = "strategy", !.si = @ + 1]
          ELSE \/ mgr' = [mgr EXCEPT !.pc = "result",
                                     !.results = Discover(st.catalog, limit)]
               \/ mgr' = [mgr EXCEPT !.pc = "strategy", !.si = @ + 1,
                                     !.disc_failed = TRUE]
    /\ UNCHANGED <<parserVars, orchVars, ing, compVars>>

\* _execute_strategy: the loop over the results, without _add_market
MgrResult ==
    /\ mgr.pc = "result"
    /\ IF mgr.results = <<>> \/ CapReached(mgr)
       THEN TRUE
       ELSE IsDuplicate(Head(mgr.results))
    /\ mgr' = IF mgr.results = <<>> \/ CapReached(mgr)
              THEN [mgr EXCEPT !.pc = "strategy", !.si = @ + 1, !.results = <<>>]
              ELSE [mgr EXCEPT !.results = Tail(@)]
    /\ UNCHANGED <<parserVars, orchVars, ing, compVars>>

\* _add_market for the next result: subscribe, then add_rule
MgrAddMarket ==
    /\ mgr.pc = "result"
    /\ mgr.results # <<>> /\ ~CapReached(mgr)
    /\ ~IsDuplicate(Head(mgr.results))
    /\ LET tok == Head(mgr.results)
           m == [mgr EXCEPT !.results = Tail(@), !.attempts = @ + 1, !.last_tok = tok]
       IN \/ /\ ing' = SubscribeOk(ing, tok)
             /\ rules' = Append(rules, CreateRule(tok))
             /\ mgr' = [m EXCEPT !.subscribed_count = @ + 1]
          \/ /\ ing.is_connected /\ ing.send_faults < MaxSendFaults
             /\ ing' = SubscribeFails(ing, tok)
             /\ mgr' = [m EXCEPT !.all_ok = FALSE, !.sub_failures = @ + 1]
             /\ UNCHANGED rules
          \/ /\ mgr.rule_faults < MaxFaults
             /\ ing' = SubscribeOk(ing, tok)
             /\ mgr' = [m EXCEPT !.all_ok = FALSE, !.rule_faults = @ + 1]
             /\ UNCHANGED rules
    /\ UNCHANGED <<last_trigger, last_price, now, g_obs, g_sig, lastEval, s2, orchVars, compVars>>

NextSub ==
    \/ MgrRun \/ MgrStrategy \/ MgrExecuteStrategy \/ MgrResult \/ MgrAddMarket
    \/ IngConnect

(***************************************************************************)
(* PortfolioManager and its positions table                                *)
(***************************************************************************)
\* prices are in cents; an average entry price is kept exact, as a fraction
RECURSIVE GCD(_, _)
GCD(a, b) == IF b = 0 THEN a ELSE GCD(b, a % b)

Frac(n, d) == LET g == GCD(n, d) IN [num |-> n \div g, den |-> d \div g]

\* models.Position (every position of this ledger is LONG)
Position(q, avg, current, opened) ==
    [quantity |-> q, avg_entry_price |-> avg, current_price |-> current, opened_at |-> opened]

\* the field constraints of Position: quantity >= 0, both prices in [0, 1]
ValidPosition(p) ==
    /\ p.quantity >= 0
    /\ p.avg_entry_price.num >= 0
    /\ p.avg_entry_price.num <= WorstPrice * p.avg_entry_price.den
    /\ p.current_price >= 0 /\ p.current_price <= WorstPrice

\* orders and results offered to the manager; a fill at 120 is above 1.0
PmOrders ==
    { Order(tok, side, q, lim) :
        tok \in Tokens, side \in {"BUY", "SELL"}, q \in {1, 2}, lim \in {None, 40} }

PmResults ==
    { [filled_price |-> fp, filled_size |-> fs, fees_paid |-> 0] :
        fp \in {40, 60, 120}, fs \in {0, 1} }

MarkPrices == {70}

NoCheck == [order |-> None, ok |-> TRUE]
NoLastFill == [side |-> None, size |-> 0, before |-> 0]

NoPortfolio == [pc |-> "none"]
NoExecutor == [pc |-> "none"]
NoPipeline == [pc |-> "none"]
NoKeywordParser == [pc |-> "none"]
NoInjector == [pc |-> "none"]
NoLifecycle == [pc |-> "none"]

\* PortfolioManager(database, max_positions) after load_state on an empty table
NewPortfolio(max_positions) ==
    [pc |-> "ready",
     max_positions |-> max_positions,    \* _max_positions
     cash_balance |-> StartCash,         \* _cash_balance
     positions |-> EmptyDict,            \* _positions: token -> Position
     db |-> {},                          \* positions table: rows keyed by token_id
     clock |-> 0,                        \* time()
     fills |-> 0,                        \* history: number of on_fill calls
     last |-> "none",                    \* history: the last call and how it ended
     last_tok |-> NoToken,               \* history: the token of the last call
     last_fill |-> NoLastFill,           \* history: side and size of the on_fill call just
                                         \* made, and the quantity held before it
     store_failures |-> 0,               \* history: store calls that raised
     bought |-> EmptyDict,               \* history: per token bought since opened and
                                         \* not sold since, [q: sum of q_i, qp: sum of q_i*p_i]
     last_check |-> NoCheck]             \* history: the check_order call just made

\* the ledger as token -> quantity
Quantities(ps) == [tok \in DOMAIN ps |-> ps[tok].quantity]

\* a row of the positions table
Row(tok, p) == [token_id |-> tok, position |-> p]

\* variant: INSERT OR IGNORE
UpsertRow_InsertOnly(tbl, tok, p) ==
    IF \E r \in tbl : r.token_id = tok THEN tbl ELSE tbl \cup {Row(tok, p)}

\* DatabaseManager.upsert_position: ON CONFLICT(token_id) DO UPDATE SET side,
\* quantity, avg_entry_price, current_price (opened_at is left as it is)
UpsertRow(tbl, tok, p) ==
    IF \E r \in tbl : r.token_id = tok
    THEN { IF r.token_id = tok
           THEN Row(tok, [p EXCEPT !.opened_at = r.position.opened_at])
           ELSE r : r \in tbl }
    ELSE tbl \cup {Row(tok, p)}

\* DatabaseManager.get_all_positions, keyed as load_state keys it
GetAllPositions(tbl) ==
    [tok \in {r.token_id : r \in tbl} |-> (CHOOSE r \in tbl : r.token_id = tok).position]

\* variant: the mean of the two prices
BuyFill_MeanOfPrices(ps, tok, q, price, t) ==
    IF tok \in DOMAIN ps
    THEN LET old == ps[tok]
         IN Position(old.quantity + q,
                     Frac(old.avg_entry_price.num + price * old.avg_entry_price.den,
                          2 * old.avg_entry_price.den),
                     price, old.opened_at)
    ELSE Position(q, Frac(price, 1), price, t)

\* _handle_buy_fill: the Position it builds
BuyFill(ps, tok, q, price, t) ==
    IF tok \in DOMAIN ps
    THEN LET old == ps[tok]
             new_quantity == old.quantity + q
             \* total_cost = old.quantity * old.avg_entry_price + quantity * price
             cost_num == old.quantity * old.avg_entry_price.num
                         + q * price * old.avg_entry_price.den
             cost_den == old.avg_entry_price.den
         IN Position(new_quantity, Frac(cost_num, cost_den * new_quantity),
                     price, old.opened_at)
    ELSE Position(q, Frac(price, 1), price, t)

\* variant: a position is never closed
Closes_Never(new_quantity) == FALSE

\* _handle_sell_fill: `if new_quantity <= 0`
Closes(new_quantity) == new_quantity <= 0

\* _handle_sell_fill: the Position it builds when the position is reduced
SellFill(ps, tok, q, price) ==
    LET old == ps[tok]
    IN Position(old.quantity - q, old.avg_entry_price, price, old.opened_at)

\* history of the BUY fills of a token
BoughtAfter(m, o, size, price) ==
    LET tok == o.token_id IN
    IF o.side = "BUY"
    THEN IF tok \in DOMAIN m.positions
         THEN IF tok \in DOMAIN m.bought
              THEN DictSet(m.bought, tok, [q |-> m.bought[tok].q + size,
                                           qp |-> m.bought[tok].qp + size * price])
              ELSE m.bought
         ELSE DictSet(m.bought, tok, [q |-> size, qp |-> size * price])
    ELSE DictDel(m.bought, tok)

\* on_fill(order, result); store_ok says whether the store call returns
OnFill(m, o, r, store_ok) ==
    LET tok == o.token_id
        price == r.filled_price
        size == FilledSize(o, r)
        called == [m EXCEPT !.fills = @ + 1, !.clock = @ + 1, !.last_tok = tok,
                            !.last_check = NoCheck,
                            !.last_fill = [side |-> o.side, size |-> size,
                                           before |-> DictGet(Quantities(m.positions), tok, 0)]]
        raised == [called EXCEPT !.last = "fill_raised"]
        stored == [called EXCEPT !.last = "fill_done",
                                 !.cash_balance = CashAfter(o, r, m.cash_balance),
                                 !.bought = BoughtAfter(m, o, size, price)]
        failed == [called EXCEPT !.last = "fill_raised", !.store_failures = @ + 1,
                                 !.bought = BoughtAfter(m, o, size, price)]
    IN IF o.side = "BUY"
       THEN LET new_pos == BuyFill(m.positions, tok, size, price, m.clock)
            IN IF ~ValidPosition(new_pos) THEN raised
               ELSE IF store_ok
               THEN [stored EXCEPT !.positions = DictSet(@, tok, new_pos),
                                   !.db = UpsertRow(@, tok, new_pos)]
               ELSE [failed EXCEPT !.positions = DictSet(@, tok, new_pos)]
       ELSE IF tok \notin DOMAIN m.positions
       THEN [called EXCEPT !.last = "fill_done",
                           !.cash_balance = CashAfter(o, r, m.cash_balance)]
       ELSE IF Closes(m.positions[tok].quantity - size)
       THEN IF store_ok
            THEN [stored EXCEPT !.positions = DictDel(@, tok),
                                !.db = DeletePosition(@, tok)]
            ELSE [failed EXCEPT !.positions = DictDel(@, tok)]
       ELSE LET new_pos == SellFill(m.positions, tok, size, price)
            IN IF ~ValidPosition(new_pos) THEN raised
               ELSE IF store_ok
               THEN [stored EXCEPT !.positions = DictSet(@, tok, new_pos),
                                   !.db = UpsertRow(@, tok, new_pos)]
               ELSE [failed EXCEPT !.positions = DictSet(@, tok, new_pos)]

\* on_price_update(token_id, price)
OnPriceUpdate(m, tok, price) ==
    IF tok \notin DOMAIN m.positions
    THEN [m EXCEPT !.last = "price_noop", !.last_tok = tok, !.last_check = NoCheck,
                   !.last_fill = NoLastFill]
    ELSE [m EXCEPT !.positions[tok].current_price = price,
                   !.last = "price_done", !.last_tok = tok, !.last_check = NoCheck,
                   !.last_fill = NoLastFill]

\* check_order(order) is called
PmCheckOrder ==
    /\ pm.pc = "ready"
    /\ \E o \in PmOrders :
          pm' = [pm EXCEPT !.last = "check", !.last_tok = o.token_id,
                           !.last_fill = NoLastFill, !.last_check =
                    [order |-> o,
                     ok |-> PortfolioCheck(o, Quantities(pm.positions),
                                           pm.cash_balance, pm.max_positions)]]
    /\ UNCHANGED <<parserVars, orchVars, ing, mgr, ex, pl, kw, inj, lc>>

\* on_fill(order, result) is called and returns or raises
PmOnFill ==
    /\ pm.pc = "ready"
    /\ pm.fills < MaxFills
    /\ \E o \in PmOrders : \E r \in PmResults : \E store_ok \in BOOLEAN :
          /\ o.limit_price = None
          /\ pm' = OnFill(pm, o, r, store_ok)
    /\ UNCHANGED <<parserVars, orchVars, ing, mgr, ex, pl, kw, inj, lc>>

\* on_price_update(token_id, price) is called
PmOnPriceUpdate ==
    /\ pm.pc = "ready"
    /\ \E tok \in Tokens : \E price \in MarkPrices :
          pm' = OnPriceUpdate(pm, tok, price)
    /\ UNCHANGED <<parserVars, orchVars, ing, mgr, ex, pl, kw, inj, lc>>

NextPortfolio == PmCheckOrder \/ PmOnFill \/ PmOnPriceUpdate

\* _execute_order: on_fill(order, result) for the order check_order has just
\* accepted
PmOnFillAccepted ==
    /\ pm.pc = "ready"
    /\ pm.fills < MaxFills
    /\ pm.last = "check" /\ pm.last_check.ok
    /\ \E r \in PmResults : \E store_ok \in BOOLEAN :
          pm' = OnFill(pm, pm.last_check.order, r, store_ok)
    /\ UNCHANGED <<parserVars, orchVars, ing, mgr, ex, pl, kw, inj, lc>>

\* the manager as _execute_order drives it: no fill without an accepted check
NextAccepted == PmCheckOrder \/ PmOnFillAccepted \/ PmOnPriceUpdate

(***************************************************************************)
(* PolymarketExecutor                                                      *)
(***************************************************************************)
\* order book prices are in millionths; sizes in USDC
DEFAULT_MAX_POSITION_SIZE == 1000
MIN_VALID_PRICE == 10000
MAX_VALID_PRICE == 990000

\* TradeSignal: size_usdc > 0
ExSignals ==
    { [token_id |-> "T1", side |-> side, size_usdc |-> sz] :
        side \in {"BUY", "SELL"}, sz \in {10, 1000, 1001} }

\* one side of the order book answered by the venue: no level, a level whose
\* price does not parse to a positive number (0), or a level with a price
BookSides == {<<>>} \cup { <<[price |-> p]>> : p \in {0, 5000, 200000, 500000, 1500000} }

\* get_order_book: raises (not available) or returns the book
Books ==
    {[available |-> FALSE, bids |-> <<>>, asks |-> <<>>]}
    \cup { [available |-> TRUE, bids |-> b, asks |-> a] : b \in BookSides, a \in BookSides }

\* create_and_post_order: raises or returns a response with this status
Responses == {"raise", "MATCHED", "REJECTED", ""}

\* the max_position_size argument of the constructor
SizeArgs == {None, 0, 500}

NoCall == [kind |-> "none", network |-> <<>>]

\* `max_position_size or self.DEFAULT_MAX_POSITION_SIZE`
EffectiveMax(arg) ==
    IF arg = None \/ arg = 0 THEN DEFAULT_MAX_POSITION_SIZE ELSE arg

\* PolymarketExecutor(max_position_size) under settings.bot.dry_run, with
\* setup() called or not
NewExecutor(arg, dry_run, has_client) ==
    [pc |-> "ready",
     configured |-> arg,                       \* the constructor argument
     max_position_size |-> EffectiveMax(arg),  \* _max_position_size
     dry_run |-> dry_run,                      \* _settings.bot.dry_run
     has_client |-> has_client,                \* _client is not None
     calls |-> 0,                              \* history: number of execute() calls
     last_signal |-> None,                     \* history: the signal of the last call,
     last_book |-> None,                       \* what the venue had to answer,
     last |-> NoCall]                          \* how the call ended and its network calls

\* _validate_position_size
SizeAllowed(e, size_usdc) == ~(size_usdc > e.max_position_size)

\* variant: dry-run is ignored
DryRun_Never(e) == FALSE

\* `if self._settings.bot.dry_run`
DryRun(e) == e.dry_run

\* _safe_parse_price of the first level of a side
BestPrice(side) == IF side[1].price > 0 THEN side[1].price ELSE None

\* _validate_spread: (best_ask - best_bid) / best_ask > MAX_SPREAD_PERCENT (0.50)
SpreadTooWide(best_bid, best_ask) ==
    IF best_bid <= 0 \/ best_ask <= 0 THEN FALSE
    ELSE 2 * (best_ask - best_bid) > best_ask

\* variant: every price is taken
ValidPrice_Any(price) == TRUE

\* _validate_price
ValidPrice(price) ==
    ~(price <= 0) /\ ~(price < MIN_VALID_PRICE) /\ ~(price > MAX_VALID_PRICE)

Max(a, b) == IF a >= b THEN a ELSE b

\* _calculate_price after the book has arrived: an error kind or the price
CalculatePrice(book, side) ==
    LET near == IF side = "BUY" THEN book.asks ELSE book.bids
        far == IF side = "BUY" THEN book.bids ELSE book.asks
    IN IF near = <<>> THEN [error |-> "order_book"]
       ELSE IF BestPrice(near) = None THEN [error |-> "order_book"]
       ELSE LET best_bid == IF side = "BUY" THEN BestPrice(far) ELSE BestPrice(near)
                best_ask == IF side = "BUY" THEN BestPrice(near) ELSE BestPrice(far)
            IN IF far # <<>> /\ BestPrice(far) # None /\ SpreadTooWide(best_bid, best_ask)
               THEN [error |-> "price_validation"]
               ELSE IF side = "BUY"
               THEN [error |-> "none",
                     price |-> Min((best_ask * 101) \div 100, MAX_VALID_PRICE)]
               ELSE [error |-> "none",
                     price |-> Max((best_bid * 99) \div 100, MIN_VALID_PRICE)]

\* _parse_order_status
ParseOrderStatus(response) ==
    IF response = "MATCHED" THEN "FILLED"
    ELSE IF response = "REJECTED" THEN "REJECTED"
    ELSE "PENDING"

\* _execute_live: how the call ends and the network calls it made
ExecuteLive(e, signal, book, response) ==
    IF ~e.has_client THEN [kind |-> "runtime", network |-> <<>>]
    ELSE IF ~book.available
    THEN [kind |-> "order_book", network |-> <<"get_order_book">>]
    ELSE LET calc == CalculatePrice(book, signal.side)
         IN IF calc.error # "none"
            THEN [kind |-> calc.error, network |-> <<"get_order_book">>]
            ELSE IF ~ValidPrice(calc.price)
            THEN [kind |-> "price_validation", network |-> <<"get_order_book">>]
            ELSE IF response = "raise"
            THEN [kind |-> "execution",
                  network |-> <<"get_order_book", "create_and_post_order">>]
            ELSE [kind |-> "result",
                  network |-> <<"get_order_book", "create_and_post_order">>,
                  result |-> [order_id |-> "venue",
                              status |-> ParseOrderStatus(response),
                              filled_price |-> calc.price]]

\* _execute_dry_run: a mock fill at 0.50
ExecuteDryRun(signal) ==
    [kind |-> "result", network |-> <<>>,
     result |-> [order_id |-> "dry_run_", status |-> "FILLED",
                 filled_price |-> 500000, filled_size |-> 2 * signal.size_usdc]]

\* execute(signal)
Execute(e, signal, book, response) ==
    IF ~SizeAllowed(e, signal.size_usdc)
    THEN [kind |-> "position_size", network |-> <<>>]
    ELSE IF DryRun(e) THEN ExecuteDryRun(signal)
    ELSE ExecuteLive(e, signal, book, response)

\* execute(signal) is called and returns or raises
ExExecute ==
    /\ ex.pc = "ready"
    /\ ex.calls < MaxExecs
    /\ \E signal \in ExSignals : \E book \in Books : \E response \in Responses :
          ex' = [ex EXCEPT !.calls = @ + 1, !.last_signal = signal, !.last_book = book,
                           !.last = Execute(ex, signal, book, response)]
    /\ UNCHANGED <<parserVars, orchVars, ing, mgr, pm, pl, kw, inj, lc>>

NextExecutor == ExExecute

(***************************************************************************)
(* The parser pipeline with its journal and observers, as a function of    *)
(* what the parsers, the executor and the file system answer               *)
(***************************************************************************)
\* what one parser does for an event: evaluate returns None, raises, or
\* returns a signal; then executor.execute raises or returns a result with
\* this status; then the journal append succeeds or meets an OSError
ParserPlan(eval, exec, journal_ok) ==
    [eval |-> eval, exec |-> exec, journal_ok |-> journal_ok]

ParserPlans ==
    {ParserPlan("none", "none", TRUE), ParserPlan("raise", "none", TRUE),
     ParserPlan("signal", "raise", TRUE)}
    \cup { ParserPlan("signal", st, ok) : st \in {"FILLED", "REJECTED"}, ok \in BOOLEAN }

EventPlans == [1..NumHandlers -> ParserPlans]

IsSignal(p) == p.eval = "signal"
IsFault(p) == p.eval = "raise" \/ p.exec = "raise" \/ ~p.journal_ok

\* how many parsers of an event's plan pass the test
CountPlans(plan, Test(_)) == Cardinality({ k \in DOMAIN plan : Test(plan[k]) })

\* an orchestrator's counters, the trades it executed, its journal files by
\* day, the observer exceptions it swallowed, and whether start() was left by
\* an exception
NewRun ==
    [metrics |-> ZeroMetrics,
     trades |-> <<>>,
     journal |-> [d \in 1..MaxDays |-> <<>>],
     swallowed |-> 0,
     halted |-> FALSE]

\* variant: the callback is awaited without try/except
CallbackEscapes_Unguarded(observer) == observer = "throwing"

\* _emit_*: does the exception of a callback leave the emitter?
CallbackEscapes(observer) == FALSE

\* _emit_* with the one registered observer (or none)
Emit(r, observer) ==
    IF observer = "none" THEN r
    ELSE IF CallbackEscapes(observer) THEN [r EXCEPT !.halted = TRUE]
    ELSE [r EXCEPT !.swallowed = @ + 1]

\* the except clause of _process_with_parsers
OnParserError(r, observer) ==
    Emit([r EXCEPT !.metrics = Bump(@, "errors_encountered")], observer)

\* variant: the file is opened with "w"
FileAppend_Truncate(file, line) == <<line>>

\* aiofiles.open(filepath, "a") and write of one line
FileAppend(file, line) == Append(file, line)

\* variant: the OSError is not caught
JournalEscapes_Propagates(ok) == ~ok

\* log_execution: does a failed append raise to the caller?
JournalEscapes(ok) == FALSE

\* TradeLogger.log_execution on the file of the day
LogExecution(r, day, signal, result, ok) ==
    IF ok
    THEN [r EXCEPT !.journal[day] = FileAppend(@, [signal |-> signal, result |-> result])]
    ELSE r

\* one iteration of `for parser in self._parsers` for event n and parser k
RunParser(r, n, k, p, observer, day, ok) ==
    IF p.eval = "none" THEN r
    ELSE IF p.eval = "raise" THEN OnParserError(r, observer)
    ELSE LET signal == <<n, k>>
             result == [order_id |-> Len(r.trades) + 1, status |-> p.exec]
             generated == Emit([r EXCEPT !.metrics = Bump(@, "signals_generated")],
                               observer)
             executed == Emit([generated EXCEPT
                                  !.metrics = Bump(@, "trades_executed"),
                                  !.trades = Append(@, [signal |-> signal, result |-> result,
                                                        day |-> day, written |-> ok])],
                              observer)
         IN IF generated.halted THEN OnParserError([generated EXCEPT !.halted = FALSE], observer)
            ELSE IF p.exec = "raise" THEN OnParserError(generated, observer)
            ELSE IF executed.halted
            THEN OnParserError([executed EXCEPT !.halted = FALSE], observer)
            ELSE IF JournalEscapes(ok) THEN OnParserError(executed, observer)
            ELSE LogExecution(executed, day, signal, result, ok)

RECURSIVE RunParsers(_, _, _, _, _, _, _)
RunParsers(r, n, plan, k, observer, day, faulty) ==
    IF k > Len(plan) \/ r.halted THEN r
    ELSE RunParsers(RunParser(r, n, ParserAt(k), plan[ParserAt(k)], observer, day,
                              plan[ParserAt(k)].journal_ok \/ ~faulty),
                    n, plan, k + 1, observer, day, faulty)

\* _process_event for event n in parsers mode; faulty: the journal's file
\* system may fail as the plan says
ProcessEvent(r, n, plan, observer, day, faulty) ==
    IF r.halted THEN r
    ELSE LET counted == [r EXCEPT !.metrics = Bump(@, "events_processed")]
             done == RunParsers(counted, n, plan, 1, observer, day, faulty)
         IN IF done.halted THEN done ELSE Emit(done, observer)

\* two orchestrators fed the same events, parser and executor answers: a is
\* the one with the observer and the failing file system, b the one without
NewPipeline(observer) ==
    [pc |-> "ready",
     observer |-> observer,      \* "none" or "throwing": a's registered callback
     day |-> 1,                  \* date.today()
     n |-> 0,                    \* events processed so far
     signals |-> 0,              \* signals planned so far
     faults |-> 0,               \* failures planned so far
     jfail |-> 0,                \* journal appends of a that met an OSError
     a |-> NewRun,
     b |-> NewRun]

\* the next event is taken from the queue and processed
PlProcessEvent ==
    /\ pl.pc = "ready"
    /\ pl.n < StreamLen
    /\ \E plan \in EventPlans :
          LET sigs == CountPlans(plan, IsSignal)
              flts == CountPlans(plan, IsFault)
              a2 == ProcessEvent(pl.a, pl.n + 1, plan, pl.observer, pl.day, TRUE)
          IN /\ pl.signals + sigs <= MaxSignals
             /\ pl.faults + flts <= MaxFaults
             /\ pl' = [pl EXCEPT
                         !.n = @ + 1, !.signals = @ + sigs, !.faults = @ + flts,
                         !.jfail = @ + (Len(a2.trades) - Len(pl.a.trades))
                                     - (Len(a2.journal[pl.day]) - Len(pl.a.journal[pl.day])),
                         !.a = a2,
                         !.b = ProcessEvent(pl.b, pl.n + 1, plan, "none", pl.day, FALSE)]
    /\ UNCHANGED <<parserVars, orchVars, ing, mgr, pm, ex, kw, inj, lc>>

\* midnight passes
PlMidnight ==
    /\ pl.pc = "ready"
    /\ pl.day < MaxDays
    /\ pl' = [pl EXCEPT !.day = @ + 1]
    /\ UNCHANGED <<parserVars, orchVars, ing, mgr, pm, ex, kw, inj, lc>>

NextPipelinePair == PlProcessEvent \/ PlMidnight

(***************************************************************************)
(* KeywordParser                                                           *)
(***************************************************************************)
\* strings are sequences of characters
Chars == {"a", "A", "b"}

\* str.lower()
Lower(str) == [i \in DOMAIN str |-> IF str[i] = "A" THEN "a" ELSE str[i]]

\* keyword in content
IsSubstring(keyword, content) ==
    \E i \in 0..(Len(content) - Len(keyword)) :
        SubSeq(content, i + 1, i + Len(keyword)) = keyword

KeywordRule(keyword, tok, side, case_sensitive, cd) ==
    [keyword |-> keyword, token_id |-> tok, trigger_side |-> side,
     case_sensitive |-> case_sensitive, cooldown_seconds |-> cd]

\* rules the parser is constructed with: two that share a keyword and differ
\* in token, a case-sensitive one, and one with a longer keyword
KeywordRulePool ==
    { KeywordRule(<<"a">>, "T1", "BUY", FALSE, DefaultCooldown),
      KeywordRule(<<"a">>, "T2", "SELL", FALSE, DefaultCooldown),
      KeywordRule(<<"A">>, "T1", "SELL", TRUE, 0),
      KeywordRule(<<"a", "b">>, "T1", "BUY", FALSE, Step) }

KeywordRuleLists ==
    UNION { [1..n -> KeywordRulePool] : n \in 1..MaxRules }

\* MarketEvent as the keyword parser reads it; content = None is has_content
\* FALSE
KeywordEvent(type, has_content, content) ==
    [event_type |-> type, has_content |-> has_content, content |-> content]

KeywordEventPool ==
    { KeywordEvent(type, TRUE, content) :
        type \in ExternalTypes \cup {"PRICE_CHANGE"},
        content \in {<<"a", "b">>, <<"A", "b">>, <<"b">>} }
    \cup { KeywordEvent("NEWS", FALSE, <<>>) }

NoKeywordEval == [kind |-> "none"]

\* KeywordParser(rules) at time() = Epoch
NewKeywordParser(rs) ==
    [pc |-> "ready",
     rules |-> rs,
     last_trigger |-> [k \in {} |-> 0],   \* _last_trigger: keyword -> time
     clock |-> Epoch,                      \* time()
     own |-> [i \in DOMAIN rs |-> None],   \* history: time of each rule's own last signal
     last |-> NoKeywordEval]               \* history: the last evaluate() call

\* variant: one trigger time for the whole parser
KeywordKey_Shared(rule) == <<>>

\* the key of _last_trigger a rule reads and writes
KeywordKey(rule) == rule.keyword

\* the cooldown test of _evaluate_rule at time t
KeywordInCooldown(rule, t, lt) ==
    t - DictGet(lt, KeywordKey(rule), 0) < rule.cooldown_seconds

\* the match of _evaluate_rule
KeywordMatches(rule, content) ==
    IF ~rule.case_sensitive
    THEN IsSubstring(Lower(rule.keyword), Lower(content))
    ELSE IsSubstring(rule.keyword, content)

\* _evaluate_rule returns a signal
KeywordFires(rule, e, t, lt) ==
    /\ ~KeywordInCooldown(rule, t, lt)
    /\ e.has_content
    /\ KeywordMatches(rule, e.content)

\* variant: the loop keeps the last signal instead of returning the first
KeywordFirstFiring_Last(rs, e, t, lt) ==
    LET firing == { i \in DOMAIN rs : KeywordFires(rs[i], e, t, lt) }
    IN IF firing = {} THEN 0 ELSE CHOOSE i \in firing : \A j \in firing : j <= i

\* the loop of evaluate: index of the rule whose signal is returned, 0 if none
KeywordFirstFiring(rs, e, t, lt) ==
    LET firing == { i \in DOMAIN rs : KeywordFires(rs[i], e, t, lt) }
    IN IF firing = {} THEN 0 ELSE CHOOSE i \in firing : \A j \in firing : i <= j

\* the two early returns of evaluate
KeywordAccepts(e) == e.event_type \in {"NEWS", "SOCIAL"} /\ e.has_content

\* evaluate(event); d is the time that passes between the cooldown test and
\* the time() call that records the trigger
KeywordEvaluate(k, e, d) ==
    LET fired == IF KeywordAccepts(e)
                 THEN KeywordFirstFiring(k.rules, e, k.clock, k.last_trigger)
                 ELSE 0
        t == k.clock + d
    IN IF fired = 0
       THEN [k EXCEPT !.last = [kind |-> "eval", event |-> e, fired |-> 0,
                                t |-> k.clock, trig |-> None,
                                before |-> k.last_trigger, own_before |-> k.own]]
       ELSE [k EXCEPT
               !.clock = t,
               !.last_trigger = DictSet(@, KeywordKey(k.rules[fired]), t),
               !.own[fired] = t,
               !.last = [kind |-> "eval", event |-> e, fired |-> fired,
                         t |-> k.clock, trig |-> t,
                         before |-> k.last_trigger, own_before |-> k.own]]

\* evaluate(event) is called
KwEvaluate ==
    /\ kw.pc = "ready"
    /\ \E e \in KeywordEventPool : \E d \in {0, Step} :
          /\ kw.clock + d <= MaxTime
          /\ kw' = KeywordEvaluate(kw, e, d)
    /\ UNCHANGED <<parserVars, orchVars, ing, mgr, pm, ex, pl, inj, lc>>

\* reset()
KwReset ==
    /\ kw.pc = "ready"
    /\ kw' = [kw EXCEPT !.last_trigger = [k \in {} |-> 0],
                        !.own = [i \in DOMAIN kw.rules |-> None],
                        !.last = NoKeywordEval]
    /\ UNCHANGED <<parserVars, orchVars, ing, mgr, pm, ex, pl, inj, lc>>

\* time passes between two calls
KwTick ==
    /\ kw.pc = "ready"
    /\ kw.clock + Step <= MaxTime
    /\ kw' = [kw EXCEPT !.clock = @ + Step, !.last = NoKeywordEval]
    /\ UNCHANGED <<parserVars, orchVars, ing, mgr, pm, ex, pl, inj, lc>>

NextKeyword == KwEvaluate \/ KwReset \/ KwTick

(***************************************************************************)
(* Orchestrator.start() and stop(), one step per await                     *)
(***************************************************************************)
\* self._ingesters, in constructor order
Ingesters == <<"A", "B">>

StopCallers == {"own", "ext"}

NoStop == [pc |-> "idle", k |-> 0, gathered |-> {}, tasks |-> <<>>, connected |-> <<>>]

\* an orchestrator after construction: start() and stop() not yet called
NewLifecycle ==
    [pc |-> "ready",
     start |-> "idle",     \* where start() is: idle, setup, connect, loop, stopping, done, raised, cancelled
     k |-> 0,              \* index of the ingester whose connect() start() awaits
     is_running |-> FALSE,
     tasks |-> [s \in Sources |-> "none"],       \* _ingester_tasks: none, running, cancelling, done
     connected |-> [s \in Sources |-> FALSE],
     stops |-> [c \in StopCallers |-> NoStop]]   \* the stop() call of the finally clause, and one from another task

\* start() is called: it awaits executor.setup()
LcStart(l) == [l EXCEPT !.start = "setup"]

\* executor.setup() returns; start() awaits the first connect()
LcSetupDone(l) == [l EXCEPT !.start = "connect", !.k = 1]

\* is_running = True and one forwarding task per ingester
LcLaunch(l) ==
    [l EXCEPT !.start = "loop", !.k = 0, !.is_running = TRUE,
              !.tasks = [s \in Sources |->
                           IF \E i \in DOMAIN Ingesters : Ingesters[i] = s
                           THEN "running" ELSE @[s]]]

\* the awaited connect() returns; after the last one the tasks are launched
LcConnectDone(l) ==
    LET c == [l EXCEPT !.connected[Ingesters[l.k]] = TRUE]
    IN IF l.k < Len(Ingesters) THEN [c EXCEPT !.k = @ + 1] ELSE LcLaunch(c)

\* `for task in self._ingester_tasks: task.cancel()`
LcCancelTasks(tasks) ==
    [s \in Sources |-> IF tasks[s] = "running" THEN "cancelling" ELSE tasks[s]]

\* the head of stop(), up to its first await: gather if there are tasks,
\* else the first disconnect()
LcStopHead(l, caller) ==
    LET gathered == { s \in Sources : l.tasks[s] # "none" }
    IN [l EXCEPT !.is_running = FALSE,
                 !.tasks = LcCancelTasks(@),
                 !.stops[caller] =
                    [NoStop EXCEPT !.pc = IF gathered # {} THEN "gather" ELSE "disconnect",
                                   !.k = IF gathered # {} THEN 0 ELSE 1,
                                   !.gathered = gathered]]

\* gather(*tasks, return_exceptions=True) returns
LcGatherDone(l, caller) == [l EXCEPT !.stops[caller].pc = "disconnect", !.stops[caller].k = 1]

\* one `await ingester.disconnect()` of stop() returns; after the last one
\* stop() returns, and what it leaves behind is recorded
LcDisconnect(l, caller) ==
    LET k == l.stops[caller].k
        d == [l EXCEPT !.connected[Ingesters[k]] = FALSE]
    IN IF k < Len(Ingesters)
       THEN [d EXCEPT !.stops[caller].k = k + 1]
       ELSE [d EXCEPT !.stops[caller].pc = "returned",
                      !.stops[caller].tasks = d.tasks,
                      !.stops[caller].connected = d.connected,
                      !.start = IF caller = "own" THEN "done" ELSE @]

LcUnchanged == UNCHANGED <<parserVars, orchVars, ing, mgr, pm, ex, pl, kw, inj>>

\* start() is called
LcStartCall ==
    /\ lc.pc = "ready" /\ lc.start = "idle"
    /\ lc' = LcStart(lc)
    /\ LcUnchanged

\* executor.setup() or a connect() returns or raises
LcSetupStep ==
    /\ lc.pc = "ready" /\ lc.start \in {"setup", "connect"}
    /\ \/ lc' = IF lc.start = "setup" THEN LcSetupDone(lc) ELSE LcConnectDone(lc)
       \/ lc' = [lc EXCEPT !.start = "raised"]
    /\ LcUnchanged

\* a forwarding task ends: its stream ended or raised, it saw is_running
\* False, or its cancellation was delivered
LcTaskEnds ==
    /\ lc.pc = "ready"
    /\ \E s \in Sources :
          /\ lc.tasks[s] \in {"running", "cancelling"}
          /\ lc' = [lc EXCEPT !.tasks[s] = "done"]
    /\ LcUnchanged

\* start() leaves its loop (flag cleared, every task done, or cancelled) and
\* calls stop() in the finally clause
LcLoopExit ==
    /\ lc.pc = "ready" /\ lc.start = "loop"
    /\ lc' = LcStopHead([lc EXCEPT !.start = "stopping"], "own")
    /\ LcUnchanged

\* the task running start() is cancelled before the try block
LcCancelSetup ==
    /\ lc.pc = "ready" /\ lc.start \in {"setup", "connect"}
    /\ lc' = [lc EXCEPT !.start = "cancelled"]
    /\ LcUnchanged

\* stop() is called by another task
LcExternalStop ==
    /\ lc.pc = "ready" /\ lc.stops["ext"].pc = "idle"
    /\ lc' = LcStopHead(lc, "ext")
    /\ LcUnchanged

\* a stop() call's gather returns
LcGather ==
    /\ lc.pc = "ready"
    /\ \E caller \in StopCallers :
          /\ lc.stops[caller].pc = "gather"
          /\ \A s \in lc.stops[caller].gathered : lc.tasks[s] = "done"
          /\ lc' = LcGatherDone(lc, caller)
    /\ LcUnchanged

\* a stop() call's next disconnect() returns
LcDisconnectStep ==
    /\ lc.pc = "ready"
    /\ \E caller \in StopCallers :
          /\ lc.stops[caller].pc = "disconnect"
          /\ lc' = LcDisconnect(lc, caller)
    /\ LcUnchanged

NextLifecycle ==
    \/ LcStartCall \/ LcSetupStep \/ LcTaskEnds \/ LcLoopExit \/ LcCancelSetup
    \/ LcExternalStop \/ LcGather \/ LcDisconnectStep

(***************************************************************************)
(* ManualEventIngester                                                     *)
(***************************************************************************)
\* ManualEventIngester.__init__; the queue holds event numbers and None
NewInjector ==
    [pc |-> "idle",             \* position of the consumer in stream()
     is_connected |-> FALSE,    \* _is_connected
     queue |-> <<>>,            \* _queue
     connects |-> 0,            \* history: connect() calls
     disconnects |-> 0,         \* history: disconnect() calls
     injected |-> 0,            \* history: inject_event() calls
     mark |-> 0,                \* history: the value of injected at the last connect()
     stream_at |-> 0,           \* history: the value of connects when stream() was entered
     delivered |-> {},          \* history: events the current stream() has yielded
     how |-> "none",            \* history: what ended the current stream()
     left |-> <<>>]             \* history: the queue when the current stream() ended

\* connect()
InjConnect ==
    /\ inj.pc # "none" /\ ~inj.is_connected
    /\ inj.connects < MaxConnects
    /\ inj' = [inj EXCEPT !.is_connected = TRUE, !.connects = @ + 1,
                          !.mark = inj.injected]
    /\ UNCHANGED <<parserVars, orchVars, ing, mgr, pm, ex, pl, kw, lc>>

\* disconnect(): the flag falls and the sentinel is queued
InjDisconnect ==
    /\ inj.pc # "none" /\ inj.is_connected
    /\ inj' = [inj EXCEPT !.is_connected = FALSE, !.disconnects = @ + 1,
                          !.queue = Append(@, None)]
    /\ UNCHANGED <<parserVars, orchVars, ing, mgr, pm, ex, pl, kw, lc>>

\* inject_event(content, source, event_type)
InjInject ==
    /\ inj.pc # "none"
    /\ inj.injected < MaxInjects
    /\ inj' = [inj EXCEPT !.injected = @ + 1, !.queue = Append(@, inj.injected + 1)]
    /\ UNCHANGED <<parserVars, orchVars, ing, mgr, pm, ex, pl, kw, lc>>

\* a consumer begins to iterate a new stream()
InjStream ==
    /\ inj.pc \in {"idle", "ended"}
    /\ inj' = [inj EXCEPT !.pc = "loop", !.stream_at = inj.connects,
                          !.delivered = {}, !.how = "none", !.left = <<>>]
    /\ UNCHANGED <<parserVars, orchVars, ing, mgr, pm, ex, pl, kw, lc>>

\* stream(): `while self._is_connected`
InjLoop ==
    /\ inj.pc = "loop"
    /\ inj' = IF inj.is_connected
              THEN [inj EXCEPT !.pc = "get"]
              ELSE [inj EXCEPT !.pc = "ended", !.how = "flag", !.left = inj.queue]
    /\ UNCHANGED <<parserVars, orchVars, ing, mgr, pm, ex, pl, kw, lc>>

\* stream(): wait_for(queue.get(), 1.0) returns an item, or times out
InjGet ==
    /\ inj.pc = "get"
    /\ inj' = IF inj.queue = <<>>
              THEN [inj EXCEPT !.pc = "loop"]
              ELSE IF Head(inj.queue) = None
              THEN [inj EXCEPT !.pc = "ended", !.how = "sentinel",
                               !.queue = Tail(@), !.left = Tail(inj.queue)]
              ELSE [inj EXCEPT !.pc = "loop", !.queue = Tail(@),
                               !.delivered = @ \cup {Head(inj.queue)}]
    /\ UNCHANGED <<parserVars, orchVars, ing, mgr, pm, ex, pl, kw, lc>>

\* the task iterating stream() is cancelled
InjCancel ==
    /\ inj.pc \in {"loop", "get"}
    /\ inj' = [inj EXCEPT !.pc = "ended", !.how = "cancel", !.left = inj.queue]
    /\ UNCHANGED <<parserVars, orchVars, ing, mgr, pm, ex, pl, kw, lc>>

NextInjector ==
    \/ InjConnect \/ InjDisconnect \/ InjInject \/ InjStream \/ InjLoop \/ InjGet
    \/ InjCancel

(***************************************************************************)
(* Specifications                                                          *)
(***************************************************************************)
\* the ingester and the subscription manager, constructed and not yet used
InitOutside ==
    /\ ing = NewIngester({})
    /\ mgr = NoManager
    /\ pm = NoPortfolio /\ ex = NoExecutor /\ pl = NoPipeline /\ kw = NoKeywordParser /\ inj = NoInjector /\ lc = NoLifecycle

\* two orchestrators side by side, one of them with or without a throwing observer
InitPipelinePair ==
    /\ InitParser /\ OrchInitWith(ParsersConfig)
    /\ ing = NewIngester({}) /\ mgr = NoManager
    /\ pm = NoPortfolio /\ ex = NoExecutor /\ kw = NoKeywordParser /\ inj = NoInjector /\ lc = NoLifecycle
    /\ \E observer \in {"none", "throwing"} : pl = NewPipeline(observer)

\* a keyword parser constructed with one to MaxRules rules
InitKeyword ==
    /\ InitParser /\ OrchInitWith(ParsersConfig)
    /\ ing = NewIngester({}) /\ mgr = NoManager
    /\ pm = NoPortfolio /\ ex = NoExecutor /\ pl = NoPipeline /\ inj = NoInjector /\ lc = NoLifecycle
    /\ \E rs \in KeywordRuleLists : kw = NewKeywordParser(rs)

\* a threshold parser without rules, or a keyword parser with its rules
InitCooldown ==
    /\ InitParser /\ OrchInitWith(ParsersConfig)
    /\ ing = NewIngester({}) /\ mgr = NoManager
    /\ pm = NoPortfolio /\ ex = NoExecutor /\ pl = NoPipeline /\ inj = NoInjector /\ lc = NoLifecycle
    /\ \/ kw = NoKeywordParser
       \/ \E rs \in KeywordRuleLists : kw = NewKeywordParser(rs)

\* an orchestrator with two ingesters, before start()
InitLifecycle ==
    /\ InitParser /\ OrchInitWith(ParsersConfig)
    /\ ing = NewIngester({}) /\ mgr = NoManager
    /\ pm = NoPortfolio /\ ex = NoExecutor /\ pl = NoPipeline
    /\ kw = NoKeywordParser /\ inj = NoInjector
    /\ lc = NewLifecycle

\* a manual ingester after construction, and no orchestrator
InitInjector ==
    /\ InitParser /\ OrchInitWith(ParsersConfig)
    /\ ing = NewIngester({}) /\ mgr = NoManager
    /\ pm = NoPortfolio /\ ex = NoExecutor /\ pl = NoPipeline
    /\ kw = NoKeywordParser /\ lc = NoLifecycle
    /\ inj = NewInjector

\* an executor in dry-run or live mode, and no orchestrator
InitExecutor ==
    /\ InitParser /\ OrchInitWith(ParsersConfig)
    /\ ing = NewIngester({}) /\ mgr = NoManager
    /\ pm = NoPortfolio /\ pl = NoPipeline /\ kw = NoKeywordParser /\ inj = NoInjector /\ lc = NoLifecycle
    /\ \E arg \in SizeArgs : \E dry_run \in BOOLEAN : \E has_client \in BOOLEAN :
          ex = NewExecutor(arg, dry_run, has_client)

\* a portfolio manager over an empty positions table, and no orchestrator
InitPortfolio ==
    /\ InitParser /\ OrchInitWith(ParsersConfig)
    /\ ing = NewIngester({}) /\ mgr = NoManager
    /\ \E max_positions \in {1, 2} : pm = NewPortfolio(max_positions)
    /\ ex = NoExecutor /\ pl = NoPipeline /\ kw = NoKeywordParser /\ inj = NoInjector /\ lc = NoLifecycle

\* a CLOB ingester with nothing or one token registered, and no orchestrator
InitIngest ==
    /\ InitParser /\ OrchInitWith(ParsersConfig)
    /\ \E toks \in {{}, {"T1"}} : ing = NewIngester(toks)
    /\ mgr = NoManager
    /\ pm = NoPortfolio /\ ex = NoExecutor /\ pl = NoPipeline /\ kw = NoKeywordParser /\ inj = NoInjector /\ lc = NoLifecycle

\* a manager over an ingester and a parser that may already hold a token
InitSub ==
    /\ InitParser /\ OrchInitWith(ParsersConfig)
    /\ \E toks \in {{}, {"T1"}} : ing = NewIngester(toks)
    /\ \E limit \in GlobalLimits : \E sts \in StrategyLists :
          mgr = NewManager(limit, sts)
    /\ pm = NoPortfolio /\ ex = NoExecutor /\ pl = NoPipeline /\ kw = NoKeywordParser /\ inj = NoInjector /\ lc = NoLifecycle

\* after construction, parsers mode: two ingesters, journal
Init == InitParser /\ OrchInitWith(ParsersConfig) /\ InitOutside

\* after construction, strategies mode: one ingester, portfolio, journal, database
InitFill == InitParser /\ OrchInitWith(StrategiesConfig) /\ InitOutside

\* after construction, either mode, one ingester, portfolio attached
InitPipeline ==
    /\ InitParser
    /\ \E c \in {StrategiesConfig, ParsersPortfolioConfig} : OrchInitWith(c)
    /\ InitOutside

\* the parser alone, beside an orchestrator that is never started
SpecParser == Init /\ [][NextParser]_vars

\* the orchestrator in parsers mode, its producers and its shutdown requests
SpecOrch == Init /\ [][NextOrch]_vars

\* the same, when the task running start() is always eventually scheduled
\* and every call it awaits returns
SpecOrchFair == SpecOrch /\ WF_vars(LoopNext \/ ParsersNext)

\* the orchestrator in strategies mode with portfolio, journal and database
SpecFill == InitFill /\ [][NextFill]_vars

\* the CLOB ingester: connect, stream, reconnect, subscribe, disconnect
SpecIngest == InitIngest /\ [][NextIngest]_vars

\* the portfolio manager with every fill preceded by its accepted check_order
SpecAccepted == InitPortfolio /\ [][NextAccepted]_vars

\* the manual ingester: connect, inject, stream, disconnect, connect again
SpecInjector == InitInjector /\ [][NextInjector]_vars

\* the CLOB ingester with disconnect() also called during a reconnect cycle
SpecDisconnect == InitIngest /\ [][NextDisconnect]_vars

\* StreamLen events through the parser pipeline, with and without a throwing
\* observer and journal failures
SpecPipelinePair == InitPipelinePair /\ [][NextPipelinePair]_vars

\* the keyword parser's evaluate() over MaxTicks clock steps
SpecKeyword == InitKeyword /\ [][NextKeyword]_vars

\* either rule engine on its own: the threshold parser where no keyword
\* parser was constructed, the keyword parser otherwise
NextCooldown == (kw.pc = "none" /\ NextParser) \/ NextKeyword

SpecCooldown == InitCooldown /\ [][NextCooldown]_vars

\* start() and stop() calls of one orchestrator, interleaved at their awaits
SpecLifecycle == InitLifecycle /\ [][NextLifecycle]_vars

\* the executor's execute() called up to MaxExecs times
SpecExecutor == InitExecutor /\ [][NextExecutor]_vars

\* the portfolio manager given up to MaxFills fills, with price updates and
\* order checks in between
SpecPortfolio == InitPortfolio /\ [][NextPortfolio]_vars

\* the subscription manager run up to MaxRuns times, before or after connect()
SpecSub == InitSub /\ [][NextSub]_vars

\* the orchestrator with a portfolio attached, in parsers or strategies mode
SpecPipeline == InitPipeline /\ [][NextPipeline]_vars

(***************************************************************************)
(* Properties of the price-threshold parser (checked under SpecParser)     *)
(***************************************************************************)
\* the rules bound to the token of the last evaluated event
EvalRules == { i \in 1..Len(rules) : rules[i].token_id = lastEval.token }

\* the delivered prices moved across the threshold of rule i on the last
\* event: to the rule's side now, on the other side or at the threshold before
\* (no price before: to the rule's side now)
MovedAcross(i, before) ==
    LET thr == 2 * rules[i].threshold IN
    IF rules[i].comparison = "below"
    THEN lastEval.price < thr /\ (before = None \/ before >= thr)
    ELSE lastEval.price > thr /\ (before = None \/ before <= thr)

\* C1: a `below` rule emits no signal on an event whose price is >= its
\* threshold (so none while every observed price is >= threshold), and every
\* transition of the delivered prices from >= threshold to < threshold that
\* finds the rule's cooldown elapsed makes evaluate() return exactly one
\* signal, from this rule or from a rule installed before it on the same
\* token; symmetrically for `above`.
C1_EdgeTriggered ==
    lastEval.kind = "eval" =>
        \A i \in EvalRules :
            LET thr == 2 * rules[i].threshold IN
            /\ lastEval.fired = i =>
                   IF rules[i].comparison = "below"
                   THEN lastEval.price < thr
                   ELSE lastEval.price > thr
            /\ ( /\ lastEval.gprev # None
                 /\ MovedAcross(i, lastEval.gprev)
                 /\ i \in lastEval.elapsed )
                   => lastEval.fired \in 1..i

C1_Witness ==
    /\ lastEval.kind = "eval"
    /\ \E i \in EvalRules :
           /\ rules[i].comparison = "below"
           /\ lastEval.gprev # None
           /\ lastEval.gprev >= 2 * rules[i].threshold
           /\ lastEval.price < 2 * rules[i].threshold
           /\ i \in lastEval.elapsed
           /\ lastEval.fired = i

\* C2: when a rule emits a signal, the time since the previous signal emitted
\* under the same (token, threshold) is at least the rule's cooldown_seconds
\* (signal times are the trigger times the parser records).
C2_CooldownGap ==
    (lastEval.fired # 0 /\ lastEval.gapFrom # None) =>
        lastEval.tTrig - lastEval.gapFrom >= rules[lastEval.fired].cooldown_seconds

C2_Witness ==
    /\ lastEval.fired # 0
    /\ lastEval.gapFrom # None
    /\ rules[lastEval.fired].cooldown_seconds = DefaultCooldown
    /\ lastEval.tTrig - lastEval.gapFrom >= DefaultCooldown

\* the firing condition as the claim C3 words it
C3_ClaimedCondition(i) ==
    LET thr == 2 * rules[i].threshold IN
    IF rules[i].comparison = "below"
    THEN lastEval.price < thr /\ (lastEval.prev = None \/ lastEval.prev <= thr)
    ELSE lastEval.price > thr /\ (lastEval.prev = None \/ lastEval.prev >= thr)

\* the rules of the last evaluation that were reached with their cooldown
\* elapsed: no rule installed before them on the token returned a signal
C3_Reached ==
    { i \in EvalRules \cap lastEval.elapsed :
        lastEval.fired = 0 \/ lastEval.fired >= i }

\* C3 as claimed: a rule reached with its cooldown elapsed fires iff the
\* previous price is <= threshold and the price < threshold (below), or the
\* previous price is >= threshold and the price > threshold (above).
C3_AsClaimed ==
    lastEval.kind = "eval" =>
        \A i \in C3_Reached : (lastEval.fired = i) <=> C3_ClaimedCondition(i)

\* C3 (amended): a rule reached with its cooldown elapsed fires iff the
\* previous price is >= threshold and the price < threshold (below), or the
\* previous price is <= threshold and the price > threshold (above); with no
\* previous price, iff the price < threshold (below) or > threshold (above).
C3_FiresIffCrossed ==
    lastEval.kind = "eval" =>
        \A i \in C3_Reached : (lastEval.fired = i) <=> MovedAcross(i, lastEval.prev)

C3_Witness ==
    /\ lastEval.kind = "eval"
    /\ \E i \in C3_Reached :
           /\ lastEval.fired = i
           /\ lastEval.prev # None
           /\ lastEval.prev > 2 * rules[i].threshold
           /\ rules[i].comparison = "below"

\* C4: every evaluated price becomes the token's last price, also when a
\* crossing is suppressed by the cooldown; a rule only fires on an event on
\* which the delivered prices cross its threshold, so a suppressed crossing
\* is not fired later; 0.35, 0.25, 0.33, 0.25 delivered within the cooldown of
\* a single `below 0.30` rule yields exactly one signal.
C4_SuppressedCrossingConsumed ==
    /\ lastEval.kind = "eval" =>
           /\ DictGet(last_price, lastEval.token, None) = lastEval.price
           /\ \A i \in EvalRules :
                  /\ (MovedAcross(i, lastEval.gprev) /\ i \notin lastEval.elapsed)
                         => lastEval.fired # i
                  /\ lastEval.fired = i => MovedAcross(i, lastEval.gprev)
    /\ (s2.step = Len(S2Prices) /\ s2.t1 - s2.t0 < DefaultCooldown) => s2.sigs = 1

C4_Witness ==
    /\ s2.step = Len(S2Prices)
    /\ s2.t1 - s2.t0 < DefaultCooldown
    /\ s2.sigs = 1
    /\ lastEval.kind = "eval"
    /\ lastEval.fired = 0
    /\ \E i \in EvalRules : MovedAcross(i, lastEval.gprev) /\ i \notin lastEval.elapsed

\* the rules that would fire on the last event: cooldown elapsed and crossed
C5_WouldFire ==
    { i \in EvalRules \cap lastEval.elapsed : MovedAcross(i, lastEval.gprev) }

C5_First == CHOOSE i \in C5_WouldFire : \A j \in C5_WouldFire : i <= j

\* C5 as claimed: when several rules of the token would fire, the signal is
\* the first one's and no other rule has its trigger record changed.
C5_AsClaimed ==
    (lastEval.kind = "eval" /\ Cardinality(C5_WouldFire) >= 2) =>
        /\ lastEval.fired = C5_First
        /\ \A j \in C5_WouldFire \ {lastEval.fired} : j \in lastEval.ltSame

\* C5 (amended): when several rules of the token would fire, the signal is the
\* first one's in install order, and every other rule whose (token, threshold)
\* differs from the winner's has its trigger record unchanged.
C5_FirstRuleWins ==
    (lastEval.kind = "eval" /\ Cardinality(C5_WouldFire) >= 2) =>
        /\ lastEval.fired = C5_First
        /\ \A j \in EvalRules \ {lastEval.fired} :
               RuleKey(rules[j]) # RuleKey(rules[lastEval.fired])
                   => j \in lastEval.ltSame

C5_Witness ==
    /\ lastEval.kind = "eval"
    /\ Cardinality(C5_WouldFire) >= 2
    /\ lastEval.fired = C5_First
    /\ \E j \in C5_WouldFire :
           /\ RuleKey(rules[j]) # RuleKey(rules[lastEval.fired])
           /\ j \in lastEval.ltSame

(***************************************************************************)
(* Orchestrator claims                                                     *)
(***************************************************************************)
Count(seq, e) == Cardinality({ i \in 1..Len(seq) : seq[i] = e })

LoopLeft == pc \in {"stop_wait", "stopped"}

C6_ExactlyOnce ==
    /\ \A i \in 1..Len(processed) : Count(processed, processed[i]) = 1
                                    /\ Count(put, processed[i]) = 1
    /\ (LoopLeft /\ ~shutdown_requested) =>
          \A i \in 1..Len(put) : Count(processed, put[i]) = 1

\* C6: once every producer task has completed the main loop terminates (the
\* orchestrator reaches its stopped state), no event is ever processed twice,
\* and when the loop is left without a shutdown request every event a producer
\* put on the queue has been processed exactly once.
C6_DrainTerminates ==
    /\ []C6_ExactlyOnce
    /\ (AllDone ~> (pc = "stopped"))

C6_Witness ==
    /\ pc = "stopped" /\ ~shutdown_requested /\ in_drain
    /\ Len(put) > 2 /\ Len(processed) = Len(put)
    /\ metrics.events_processed = Len(put)

\* C7 as stated: when the loop has been left after a shutdown request, no
\* enqueued event remains unprocessed.
C7_AsClaimed ==
    (shutdown_requested /\ LoopLeft) => queue = <<>>

C7_NoDrainStep ==
    (shutdown_requested /\ pc \in {"loop", "stop_wait", "stopped"}) =>
        /\ processed' = processed
        /\ queue' = queue
        /\ pc' \in {"loop", "stop_wait", "stopped"}

\* C7: after a shutdown request the main loop does not drain.  Once the
\* coroutine is back at the loop test (or has been cancelled) no further event
\* is taken: the loop is left and whatever is still in the queue stays there
\* unprocessed.
C7_ShutdownDiscards == [][C7_NoDrainStep]_vars

C7_Witness ==
    /\ shutdown_requested /\ pc = "stopped"
    /\ queue # <<>> /\ Len(processed) < Len(put)

\* C8: for each source, the events of that source are processed in the order
\* its stream yielded them, whatever the interleaving with the other sources.
C8_SourceOrder ==
    \A i \in 1..Len(processed) : \A j \in 1..Len(processed) :
        (i < j /\ processed[i][1] = processed[j][1]) =>
            processed[i][2] < processed[j][2]

C8_Witness ==
    /\ Len(processed) >= 3
    /\ processed[1][1] = "A" /\ processed[2][1] = "B" /\ processed[3][1] = "A"
    /\ processed[1][2] < processed[3][2]

\* C9: on each event the k-th evaluation is by the k-th registered parser, and
\* no executor call for an earlier parser's signal is still outstanding when a
\* parser is evaluated.
C9_RegistrationOrder ==
    \A k \in 1..Len(evalLog) :
        evalLog[k].parser = k /\ evalLog[k].execOpen = 0

C9_Witness ==
    /\ Len(processed) = 1 /\ Len(evalLog) = 2 /\ pc = "eval" /\ pi = 3
    /\ metrics.signals_generated = 2 /\ metrics.trades_executed = 2

ClaimedRank(w) ==
    IF w \in {"position", "cash"} THEN 1
    ELSE IF w \in {"store_position", "store_trade"} THEN 2
    ELSE 3

\* C10 as stated: within a fill every portfolio write comes before every store
\* write, and every store write before the journal append.
C10_AsClaimed ==
    \A i \in 1..Len(writes) : \A j \in 1..Len(writes) :
        i < j => ClaimedRank(writes[i]) <= ClaimedRank(writes[j])

WriteRank(w) ==
    CASE w = "position" -> 1
      [] w = "store_position" -> 2
      [] w = "cash" -> 3
      [] w = "journal" -> 4
      [] w = "store_trade" -> 5

FillOpen == pc \in {"xexec", "store", "stage"}

\* C10: within a fill the writes happen in the order position ledger, store
\* upsert (or delete) of the position, cash balance, journal append, trade row
\* insert; a fill that runs to its end without a failure has made the position,
\* store and cash writes; and no event is taken from the queue while an order
\* is being executed.
C10_WriteOrder ==
    /\ \A i \in 1..Len(writes) : \A j \in 1..Len(writes) :
          i < j => WriteRank(writes[i]) < WriteRank(writes[j])
    /\ (pc = "stage" /\ fill.stages = <<>> /\ faults = 0) =>
          writes = <<"position", "store_position", "cash", "journal", "store_trade">>
    /\ pc \in {"loop", "get", "timeout", "drain"} =>
          (orders = <<>> /\ fill.stages = <<>>)

C10_Witness ==
    /\ Len(processed) = 2 /\ pc = "tick" /\ db_trades = 1 /\ journal = 1
    /\ writes = <<"position", "store_position", "cash", "journal", "store_trade">>

(***************************************************************************)
(* Error handling and validation                                           *)
(***************************************************************************)
\* a step in which a parser, strategy, executor, portfolio or store call raises
HandlerRaises ==
    /\ faults' = faults + 1
    /\ pc \in {"eval", "exec", "tick", "xexec", "store"}
       \/ (pc = "stage" /\ Head(fill.stages) \in {"notify", "insert"})

C11_Step ==
    HandlerRaises =>
        /\ metrics'.errors_encountered = metrics.errors_encountered + 1
        /\ notified' = notified + 1
        /\ pc' \in {"eval", "tick", "order"}
        /\ is_running' = is_running /\ queue' = queue /\ task' = task
        /\ in_drain' = in_drain

\* C11: a call that raises while an event is processed is counted in
\* errors_encountered and reported to the observers once, and the start()
\* coroutine stays inside event processing with the queue, the running flag
\* and the producer tasks untouched, so the loop goes on to the next event.
C11_ErrorsContained == [][C11_Step]_vars

C11_Witness ==
    /\ Len(processed) = 2 /\ evalLog = <<>> /\ pc \in {"eval", "tick"} /\ pi = 1
    /\ faults = 1 /\ metrics.errors_encountered = 1 /\ notified = 1

C12_Step ==
    /\ (cfg.portfolio /\ pc' = "xexec" /\ pc # "xexec") =>
          /\ pc = "order" /\ orders # <<>>
          /\ CheckOrder(Head(orders), positions, cash)
          /\ checked' = "passed"
    /\ (cfg.portfolio /\ pc = "order" /\ orders # <<>>
          /\ ~CheckOrder(Head(orders), positions, cash)) =>
          /\ pc' = "order"
          /\ orders' \in {orders, Tail(orders)}
          /\ journal' = journal /\ db_trades' = db_trades
          /\ db_positions' = db_positions /\ positions' = positions
          /\ cash' = cash /\ metrics' = metrics

C19_Step ==
    \A s \in Sources :
        (task[s] = "running" /\ task'[s] = "done") =>
            /\ \A t \in Sources \ {s} : task'[t] = task[t]
            /\ is_running' = is_running
            /\ pc' = pc /\ queue' = queue /\ processed' = processed

\* C19: the end of one source's producer (its stream raised or ran out)
\* changes nothing but that producer's task: the other producers, the running
\* flag, the queue and the main loop are untouched; and, absent a shutdown
\* request, the main loop is not left while any producer is not yet done.
C19_OnlyThatSource ==
    /\ [][C19_Step]_vars
    /\ []((LoopLeft /\ ~shutdown_requested) =>
            \A s \in cfg.sources : task[s] = "done")

C19_Witness ==
    /\ task["A"] = "done" /\ emitted["A"] = 0 /\ task["B"] = "running"
    /\ is_running /\ ~shutdown_requested
    /\ Len(processed) = 2 /\ processed[2] = <<"B", 2>> /\ pc = "eval"

\* C20: the ledger has one entry per held token and the positions table never
\* holds two rows for the same token, whatever fills have been applied.
C20_OnePositionPerToken ==
    /\ \A r1 \in db_positions : \A r2 \in db_positions :
          r1.token_id = r2.token_id => r1 = r2
    /\ Cardinality(db_positions) <= Cardinality(Tokens)
    /\ DOMAIN positions \subseteq Tokens

C20_Witness ==
    /\ metrics.trades_executed = 2
    /\ positions = DictSet(EmptyDict, "T1", 2)
    /\ db_positions = {PositionRow("T1", 2)}

(***************************************************************************)
(* Ingester claims                                                         *)
(***************************************************************************)
\* C17: whenever stream() is back at its receive loop after a reconnect, every
\* token that was registered when the outage began has been sent again on the
\* new connection, and so no event is yielded before that.
C17_ResubscribedOnReconnect ==
    /\ []((ing.pc = "recv" /\ ing.is_connected) => ing.pre \subseteq ing.server)
    /\ [][(ing'.yielded > ing.yielded) => ing.pre \subseteq ing.server]_vars

C17_Witness ==
    /\ ing.pc = "recv" /\ ing.outage = 2 /\ ing.yielded = 2
    /\ ing.pre = {"T1", "T2"} /\ ing.server = {"T1", "T2"}

\* C18 as stated: an outage sees at most N attempts, never more than N
\* consecutive failed connects, and the source fails terminally only after
\* exactly N consecutive failures.
C18_AsClaimed ==
    /\ ing.outage <= MAX_RECONNECT_ATTEMPTS
    /\ ing.failed_run <= MAX_RECONNECT_ATTEMPTS
    /\ ing.pc = "failed" => ing.failed_run = MAX_RECONNECT_ATTEMPTS

(***************************************************************************)
(* Subscription manager claims                                             *)
(***************************************************************************)
\* C13 as stated: a failed subscribe inside _add_market leaves the ingester's
\* subscription set, the parser's rules and the installed counter as they were.
C13_AsClaimed ==
    [][(mgr'.sub_failures > mgr.sub_failures) =>
          /\ ing'.subscribed_tokens = ing.subscribed_tokens
          /\ rules' = rules
          /\ mgr'.subscribed_count = mgr.subscribed_count]_vars

NewlySubscribed == ing.subscribed_tokens \ mgr.start_subs

NewRuleTokens == [i \in 1..(Len(rules) - mgr.start_rules) |-> rules[mgr.start_rules + i].token_id]

\* C14: when a manager run ends and none of its subscribe or add_rule calls
\* failed, the tokens the run added to the ingester are exactly the tokens of
\* the rules the run added, and no two of those rules name the same token.
C14_RulesMatchSubscriptions ==
    (mgr.pc = "done" /\ mgr.all_ok) =>
        /\ { NewRuleTokens[i] : i \in DOMAIN NewRuleTokens } = NewlySubscribed
        /\ Len(NewRuleTokens) = Cardinality(NewlySubscribed)

C14_Witness ==
    /\ mgr.pc = "done" /\ mgr.all_ok /\ mgr.run = 1
    /\ mgr.strategies[1].catalog = <<"T2", "T2", "T3">>
    /\ NewlySubscribed = {"T2", "T3"}
    /\ NewRuleTokens = <<"T2", "T3">>

C15_Step ==
    /\ (mgr.pc = "strategy" /\ mgr'.pc = "execute") =>
          mgr.subscribed_count < mgr.global_limit
    /\ (mgr'.attempts > mgr.attempts) => mgr.subscribed_count < mgr.global_limit

\* C15: the installed counter never exceeds the global cap, over all the
\* strategies and runs of a manager; no strategy is entered and no market is
\* added once the counter has reached the cap.
C15_GlobalCap ==
    /\ [](mgr.subscribed_count <= mgr.global_limit)
    /\ [][C15_Step]_vars

C15_Witness ==
    /\ mgr.pc = "done" /\ mgr.run = 1
    /\ mgr.si = 2 /\ Len(mgr.strategies) = 2
    /\ mgr.subscribed_count = mgr.global_limit

C16_Step ==
    (mgr'.attempts > mgr.attempts) =>
        /\ mgr'.last_tok \notin ing.subscribed_tokens
        /\ ~HasRuleForToken(rules, mgr'.last_tok)

\* C16: in a second run of the same manager over the same strategies and
\* catalog (every discover call answering), the ingester's tokens and the
\* parser's rules stay what they were when the run began; and _add_market is
\* never called for a token that is subscribed or has a rule.
C16_SecondRunInstallsNothing ==
    /\ []((mgr.run >= 2 /\ ~mgr.disc_failed) =>
            /\ ing.subscribed_tokens = mgr.start_subs
            /\ Len(rules) = mgr.start_rules)
    /\ [][C16_Step]_vars

C16_Witness ==
    /\ mgr.run = 2 /\ mgr.pc = "done" /\ ~mgr.disc_failed
    /\ mgr.global_limit = 4 /\ mgr.subscribed_count = 2
    /\ mgr.si = Len(mgr.strategies) + 1
    /\ ing.subscribed_tokens = mgr.start_subs
    /\ Len(rules) = 2 /\ mgr.start_rules = 2

(***************************************************************************)
(* Portfolio manager claims                                                *)
(***************************************************************************)
\* the quantity the last fill leaves, by the arithmetic of the claim
QuantityAfterLastFill ==
    IF pm.last_fill.side = "BUY"
    THEN pm.last_fill.before + pm.last_fill.size
    ELSE pm.last_fill.before - pm.last_fill.size

StaticFields(p) == [p EXCEPT !.current_price = 0]

C23_Accepts(o) ==
    IF o.side = "BUY"
    THEN /\ o.quantity * (IF o.limit_price = None THEN WorstPrice ELSE o.limit_price)
               <= pm.cash_balance
         /\ \/ o.token_id \in DOMAIN pm.positions
            \/ Cardinality(DOMAIN pm.positions) < pm.max_positions
    ELSE /\ o.token_id \in DOMAIN pm.positions
         /\ pm.positions[o.token_id].quantity >= o.quantity

\* C23: check_order answers yes exactly when, for a BUY, quantity times the
\* limit price (1.0 when unset) is at most the cash balance and the token is
\* held or there is room for a position, and for a SELL, the token is held
\* with at least the order's quantity.
C23_CheckOrderIff ==
    pm.last = "check" => (pm.last_check.ok <=> C23_Accepts(pm.last_check.order))

C23_Witness ==
    /\ pm.last = "check" /\ ~pm.last_check.ok
    /\ pm.last_check.order = Order("T1", "BUY", 1, 40)
    /\ pm.max_positions = 1 /\ DOMAIN pm.positions = {"T2"}
    /\ pm.cash_balance >= 40

\* C24: a position built by BUY fills only has the sum of their sizes as its
\* quantity and sum(q_i * p_i) / sum(q_i) as its average entry price.
C24_Vwap ==
    \A tok \in DOMAIN pm.bought :
        /\ tok \in DOMAIN pm.positions
        /\ pm.positions[tok].quantity = pm.bought[tok].q
        /\ pm.positions[tok].avg_entry_price.num * pm.bought[tok].q
              = pm.bought[tok].qp * pm.positions[tok].avg_entry_price.den

C24_Witness ==
    /\ "T1" \in DOMAIN pm.positions /\ "T1" \in DOMAIN pm.bought
    /\ pm.bought["T1"] = [q |-> 3, qp |-> 160]
    /\ pm.positions["T1"].quantity = 3
    /\ pm.positions["T1"].avg_entry_price = [num |-> 160, den |-> 3]

(***************************************************************************)
(* Executor claims                                                         *)
(***************************************************************************)
OrderSubmitted ==
    \E i \in DOMAIN ex.last.network : ex.last.network[i] = "create_and_post_order"

\* the pre-trade check that fails first for the last call, stated on the
\* signal and the venue's book: size guard, order-book availability (the book
\* and the side to cross), spread above 50%, crossing price outside [0.01, 0.99]
C25_FailedCheck ==
    LET sg == ex.last_signal
        b == ex.last_book
        near == IF sg.side = "BUY" THEN b.asks ELSE b.bids
        far == IF sg.side = "BUY" THEN b.bids ELSE b.asks
        bid == IF sg.side = "BUY" THEN far[1].price ELSE near[1].price
        ask == IF sg.side = "BUY" THEN near[1].price ELSE far[1].price
        crossing == IF sg.side = "BUY"
                    THEN Min((near[1].price * 101) \div 100, MAX_VALID_PRICE)
                    ELSE Max((near[1].price * 99) \div 100, MIN_VALID_PRICE)
    IN IF sg.size_usdc > ex.max_position_size THEN "position_size"
       ELSE IF ~b.available \/ near = <<>> THEN "order_book"
       ELSE IF near[1].price <= 0 THEN "order_book"
       ELSE IF far # <<>> /\ far[1].price > 0 /\ 2 * (ask - bid) > ask
       THEN "price_validation"
       ELSE IF crossing < MIN_VALID_PRICE \/ crossing > MAX_VALID_PRICE
       THEN "price_validation"
       ELSE "none"

\* C25: in live mode with the client set up, when a pre-trade check fails the
\* call raises that check's error (position size, order book, price
\* validation) and create_and_post_order is not called.
C25_ChecksBeforeOrder ==
    (ex.pc = "ready" /\ ex.calls > 0 /\ ~ex.dry_run /\ ex.has_client
        /\ C25_FailedCheck # "none") =>
        /\ ex.last.kind = C25_FailedCheck
        /\ ~OrderSubmitted

C25_Witness ==
    /\ ex.pc = "ready" /\ ex.calls > 0 /\ ~ex.dry_run /\ ex.has_client
    /\ ex.last_signal.side = "SELL" /\ ex.last_signal.size_usdc = 10
    /\ ex.last_book = [available |-> TRUE, bids |-> <<[price |-> 1500000]>>, asks |-> <<>>]
    /\ ex.last.kind = "price_validation"
    /\ ex.last.network = <<"get_order_book">>

\* C26 as stated: a signal larger than the max_position_size the executor was
\* built with (the default when none was given) ends in a position-size error
\* with no network call, in dry-run and in live mode.
C26_AsClaimed ==
    (ex.pc = "ready" /\ ex.calls > 0
        /\ ex.last_signal.size_usdc >
              (IF ex.configured = None THEN DEFAULT_MAX_POSITION_SIZE ELSE ex.configured)) =>
        /\ ex.last.kind = "position_size"
        /\ ex.last.network = <<>>

\* C27: in dry-run mode execute() makes no network call, and a signal within
\* the size limit gets a FILLED result whose order id starts with dry_run_.
C27_DryRunIsolated ==
    (ex.pc = "ready" /\ ex.calls > 0 /\ ex.dry_run) =>
        /\ ex.last.network = <<>>
        /\ ~(ex.last_signal.size_usdc > ex.max_position_size) =>
              /\ ex.last.kind = "result"
              /\ ex.last.result.status = "FILLED"
              /\ ex.last.result.order_id = "dry_run_"

C27_Witness ==
    /\ ex.pc = "ready" /\ ex.calls = 2 /\ ex.dry_run /\ ~ex.has_client
    /\ ex.last_signal.size_usdc = 1000 /\ ex.max_position_size = 1000
    /\ ~ex.last_book.available
    /\ ex.last.kind = "result" /\ ex.last.result.order_id = "dry_run_"


(***************************************************************************)
(* Journal and observer claims                                             *)
(***************************************************************************)
\* what a journal line records of a trade
Line(t) == [signal |-> t.signal, result |-> t.result]

\* the executions of a run that returned a result on day d
ExecutedOn(r, d) == SelectSeq(r.trades, LAMBDA t : t.day = d)

\* those of them whose append met no OSError
WrittenOn(r, d) == SelectSeq(r.trades, LAMBDA t : t.day = d /\ t.written)

\* the lines a sequence of trades leaves in a file
Lines(ts) == [i \in DOMAIN ts |-> Line(ts[i])]

IsPrefix(s, t) == Len(s) <= Len(t) /\ SubSeq(t, 1, Len(s)) = s

Executed(r) == [i \in DOMAIN r.trades |->
                   [signal |-> r.trades[i].signal, result |-> r.trades[i].result,
                    day |-> r.trades[i].day]]

\* C29: a failed journal append changes nothing but the journal: the run is
\* not halted, and its counters (errors included) and executed trades are
\* those of the run whose appends all succeeded
C29_JournalFailureSwallowed ==
    (pl.pc = "ready" /\ pl.jfail > 0) =>
        /\ ~pl.a.halted
        /\ pl.a.metrics = pl.b.metrics
        /\ Executed(pl.a) = Executed(pl.b)

\* an append failed, and a later event was executed and journaled after it
C29_Witness ==
    /\ pl.pc = "ready"
    /\ pl.jfail > 0
    /\ Len(pl.a.trades) >= 2
    /\ ~pl.a.trades[1].written
    /\ pl.a.trades[2].written
    /\ pl.a.trades[2].signal[1] > pl.a.trades[1].signal[1]
    /\ \E d \in 1..MaxDays : Len(pl.a.journal[d]) = 1

\* C30: with an observer that throws on every callback, events_processed,
\* signals_generated, trades_executed and the executed trades are those of
\* the run without the observer
C30_ThrowingObserverHarmless ==
    (pl.pc = "ready" /\ pl.observer = "throwing") =>
        /\ pl.a.metrics.events_processed = pl.b.metrics.events_processed
        /\ pl.a.metrics.signals_generated = pl.b.metrics.signals_generated
        /\ pl.a.metrics.trades_executed = pl.b.metrics.trades_executed
        /\ { Executed(pl.a)[i] : i \in DOMAIN pl.a.trades }
              = { Executed(pl.b)[i] : i \in DOMAIN pl.b.trades }

\* the observer threw on signal, trade, error and metrics callbacks over two
\* events, and trades were executed all the same
C30_Witness ==
    /\ pl.pc = "ready"
    /\ pl.observer = "throwing"
    /\ pl.n >= 2
    /\ pl.a.swallowed >= 4
    /\ pl.a.metrics.trades_executed >= 1
    /\ pl.a.metrics.errors_encountered >= 1


(***************************************************************************)
(* Keyword parser claims                                                   *)
(***************************************************************************)
\* the text a rule's keyword is looked for in, and the text looked for
Folded(rule, str) == IF rule.case_sensitive THEN str ELSE Lower(str)

\* the rules that, by the claim, may emit for the event of the last
\* evaluate(): cooldown over since the last signal recorded under the rule's
\* keyword, and the keyword found in the content
C31_Candidates ==
    { i \in DOMAIN kw.rules :
        /\ kw.last.t - DictGet(kw.last.before, kw.rules[i].keyword, 0)
              >= kw.rules[i].cooldown_seconds
        /\ \E a \in 1..Len(kw.last.event.content) :
           \E b \in a..Len(kw.last.event.content) :
              SubSeq(Folded(kw.rules[i], kw.last.event.content), a, b)
                 = Folded(kw.rules[i], kw.rules[i].keyword) }

\* C31: evaluate() returns no signal for an event that is not NEWS or SOCIAL
\* or has no content; otherwise it returns the signal of the first rule in
\* install order whose cooldown is over and whose keyword is in the content
\* (none if there is no such rule), and records the time of the signal under
\* that rule's keyword, leaving every other record as it was
C31_FirstMatchWins ==
    (kw.pc = "ready" /\ kw.last.kind = "eval") =>
        LET e == kw.last.event
            fired == kw.last.fired
        IN /\ (e.event_type \notin {"NEWS", "SOCIAL"} \/ ~e.has_content) => fired = 0
           /\ (e.event_type \in {"NEWS", "SOCIAL"} /\ e.has_content) =>
                 /\ C31_Candidates = {} => fired = 0
                 /\ C31_Candidates # {} =>
                       /\ fired \in C31_Candidates
                       /\ \A j \in C31_Candidates : fired <= j
           /\ fired = 0 => kw.last_trigger = kw.last.before
           /\ fired # 0 =>
                 /\ kw.last.trig >= kw.last.t
                 /\ kw.last_trigger[kw.rules[fired].keyword] = kw.last.trig
                 /\ \A k \in DOMAIN kw.last.before :
                       k # kw.rules[fired].keyword =>
                          kw.last_trigger[k] = kw.last.before[k]

\* two rules have their keyword in the content and their cooldown over, and
\* the first one's signal was returned
C31_Witness ==
    /\ kw.pc = "ready" /\ kw.last.kind = "eval"
    /\ Cardinality(C31_Candidates) = 2
    /\ kw.last.fired = 1
    /\ kw.rules[1].keyword # kw.rules[2].keyword


(***************************************************************************)
(* Cooldown claims, both rule engines                                      *)
(***************************************************************************)
\* the keyword parser's last evaluate() looked at the rules
KeywordEvaluated ==
    /\ kw.pc = "ready" /\ kw.last.kind = "eval"
    /\ kw.last.event.event_type \in {"NEWS", "SOCIAL"} /\ kw.last.event.has_content

\* rule i's keyword is in the content of the last event
Contains(i) ==
    \E a \in 1..Len(kw.last.event.content) : \E b \in a..Len(kw.last.event.content) :
        SubSeq(Folded(kw.rules[i], kw.last.event.content), a, b)
           = Folded(kw.rules[i], kw.rules[i].keyword)

\* time of a signal, 0.0 when there was none
SignalTime(x) == IF x = None THEN 0 ELSE x

\* time of the last signal, before the last evaluate(), of the rules in js
LastSignal(js) ==
    LET times == { SignalTime(kw.last.own_before[j]) : j \in js } \cup {0}
    IN CHOOSE t \in times : \A u \in times : u <= t

\* the keyword rules that share rule i's cooldown record
SameKeyword(i) == { j \in DOMAIN kw.rules : kw.rules[j].keyword = kw.rules[i].keyword }

\* rule i is emitted, or a rule installed before it is
EmittedUpTo(i) == kw.last.fired # 0 /\ kw.last.fired <= i

\* C40 as stated: a rule is held back only by its own last signal.  Threshold
\* parser: a signal leaves the trigger record of every other rule as it was.
\* Keyword parser: a rule whose keyword is in the content and whose own last
\* signal is at least its cooldown ago is emitted, unless an earlier rule is.
C40_AsClaimed ==
    /\ (kw.pc = "none" /\ lastEval.kind = "eval" /\ lastEval.fired # 0) =>
          \A j \in (1..Len(rules)) \ {lastEval.fired} : j \in lastEval.ltSame
    /\ KeywordEvaluated =>
          \A i \in DOMAIN kw.rules :
             (Contains(i) /\ kw.last.t - LastSignal({i}) >= kw.rules[i].cooldown_seconds)
                => EmittedUpTo(i)

\* C40 (amended): a rule is held back by the last signal of the rules that
\* share its cooldown record, and by no other.  Threshold parser: a signal
\* sets the trigger record of the rules with the firing rule's (token,
\* threshold) and leaves the record of every other rule as it was.  Keyword
\* parser: a rule whose keyword is in the content is emitted, unless an
\* earlier rule is, when the last signal of the rules with its keyword is at
\* least its cooldown ago, and is not emitted when it is not.
C40_CooldownPerKey ==
    /\ (kw.pc = "none" /\ lastEval.kind = "eval" /\ lastEval.fired # 0) =>
          \A j \in 1..Len(rules) :
             IF RuleKey(rules[j]) = RuleKey(rules[lastEval.fired])
             THEN last_trigger[RuleKey(rules[j])] = lastEval.tTrig
             ELSE j \in lastEval.ltSame
    /\ KeywordEvaluated =>
          \A i \in DOMAIN kw.rules :
             Contains(i) =>
                IF kw.last.t - LastSignal(SameKeyword(i)) >= kw.rules[i].cooldown_seconds
                THEN EmittedUpTo(i)
                ELSE kw.last.fired # i

\* a keyword rule that never emitted is held back by the signal of another
\* rule with its keyword and a different token
C40_Witness ==
    /\ KeywordEvaluated
    /\ Len(kw.rules) = 2
    /\ kw.rules[1].keyword = kw.rules[2].keyword
    /\ kw.rules[1].token_id # kw.rules[2].token_id
    /\ Contains(2)
    /\ kw.last.own_before[2] = None
    /\ kw.last.own_before[1] # None
    /\ kw.last.fired = 0


(***************************************************************************)
(* Shutdown claims                                                         *)
(***************************************************************************)
\* C32 as stated: when a stop() call returns, every forwarding task has been
\* cancelled and has finished, and every ingester is disconnected.
C32_AsClaimed ==
    \A caller \in StopCallers :
        (lc.pc = "ready" /\ lc.stops[caller].pc = "returned") =>
            /\ \A s \in Sources : lc.stops[caller].tasks[s] \in {"none", "done"}
            /\ \A s \in Sources : ~lc.stops[caller].connected[s]

\* what the producers have to deliver in all
TotalEvents == StreamLen * Cardinality(cfg.sources)

\* C33 as stated: the queue has a capacity that the number of waiting events
\* never exceeds, a put that would exceed it waiting instead: there is a
\* capacity below the producers' total that the queue stays within.
C33_AsClaimed ==
    \E capacity \in 1..(TotalEvents - 1) : Len(queue) <= capacity

(***************************************************************************)
(* Fill claims                                                             *)
(***************************************************************************)
\* C34: the portfolio's positions and cash change only for an execution that
\* actually filled: on_fill applied to a result whose status is not FILLED
\* (filled_size 0) leaves positions and cash unchanged
C34_AsClaimed ==
    [][(/\ pc = "stage"
        /\ fill.stages # <<>> /\ Head(fill.stages) = "on_fill"
        /\ fill.result.status # "FILLED" /\ fill.result.filled_size = 0)
            => (positions' = positions /\ cash' = cash)]_vars

(***************************************************************************)
(* Subscription cap claims                                                 *)
(***************************************************************************)
\* C35 as stated: the tokens the manager has subscribed in the ingester never
\* number more than the global cap, also when add_rule fails after a
\* subscribe that succeeded (first run, no subscribe has failed).
C35_AsClaimed ==
    (mgr.run = 1 /\ mgr.sub_failures = 0) =>
        Cardinality(NewlySubscribed) <= mgr.global_limit

(***************************************************************************)
(* Disconnect claims                                                       *)
(***************************************************************************)
\* C36 as stated: once disconnect() has been called on the source it stays
\* disconnected and its stream yields no further event, also when a
\* reconnect cycle was in progress at the call.
C36_AsClaimed ==
    /\ [](ing.disconnected => ~ing.is_connected)
    /\ [][ing.disconnected => ing'.yielded = ing.yielded]_vars

(***************************************************************************)
(* Manual ingester claims                                                  *)
(***************************************************************************)
\* events injected after the last connect()
InjectedSinceConnect == (inj.mark + 1)..inj.injected

\* C37 as stated: after disconnect() and a second connect(), a stream()
\* entered after the reconnect delivers every event injected after it: such a
\* stream does not end, with the source still connected and no task cancelled,
\* while an event injected after the reconnect waits in the queue.
C37_AsClaimed ==
    (/\ inj.connects >= 2 /\ inj.is_connected
     /\ inj.stream_at = inj.connects
     /\ inj.pc = "ended" /\ inj.how # "cancel")
        => \A k \in 1..Len(inj.left) : inj.left[k] \notin InjectedSinceConnect

(***************************************************************************)
(* Position cap claims                                                     *)
(***************************************************************************)
\* C38: when the ledger starts within max_positions and every fill applied is
\* for an order check_order accepted immediately beforehand, the number of
\* positions held never exceeds max_positions.
C38_PositionCap ==
    Cardinality(DOMAIN pm.positions) <= pm.max_positions

C38_Witness ==
    /\ pm.max_positions = 1 /\ pm.fills = 1
    /\ DOMAIN pm.positions = {"T1"}
    /\ pm.last = "check" /\ ~pm.last_check.ok
    /\ pm.last_check.order.side = "BUY" /\ pm.last_check.order.token_id = "T2"
    /\ pm.last_check.order.quantity = 1

(***************************************************************************)
(* Metrics claims                                                          *)
(***************************************************************************)
\* no event is in hand: start() is between two _process_event calls
EventBoundary == cur = NoEvent

C39_Step == \A k \in DOMAIN metrics : metrics'[k] >= metrics[k]

\* C39: at every event boundary trades_executed <= signals_generated <=
\* trades_executed + errors_encountered, and no counter ever decreases.
C39_CountersOrdered ==
    /\ [](EventBoundary =>
            /\ metrics.trades_executed <= metrics.signals_generated
            /\ metrics.signals_generated
                  <= metrics.trades_executed + metrics.errors_encountered)
    /\ [][C39_Step]_vars

C39_Witness ==
    /\ EventBoundary /\ pc = "loop"
    /\ metrics.events_processed = 2
    /\ metrics.signals_generated = 2
    /\ metrics.trades_executed = 1
    /\ metrics.errors_encountered = 1

====
